---------------------------- MODULE Spec2Model ----------------------------
(***************************************************************************)
(* Model of the agentic backtesting pipeline: the Orchestrator state       *)
(* machine (guard -> retrieve -> code -> code_verify -> run ->             *)
(* result_verify -> report) with its bounded retry loop, together with     *)
(* the agents it composes (SpecGuardAgent, RetrieverAgent, CoderAgent,     *)
(* CodeFixerAgent, CodeVerifierAgent, RunnerAgent, BTVerifierAgent,        *)
(* ReporterAgent).                                                         *)
(*                                                                         *)
(* Conventions                                                             *)
(*   - an Optional value is a sequence of length 0 (None) or 1;            *)
(*   - a float is a record [cls, v]: cls is "fin", "nan", "pinf" or "ninf" *)
(*     and v the value in hundredths (0.1 is 10, 5.0 is 500);              *)
(*   - a date is the number of days since 2005-01-03;                      *)
(*   - an error or log text is a record [text, names]: the fixed text and  *)
(*     the list of names formatted into it.                                *)
(***************************************************************************)
EXTENDS Integers, Sequences, FiniteSets, TLC

(***************************************************************************)
(* Bounds of the model.                                                    *)
(***************************************************************************)
MaxBudget == 2

MaxNeeds == 3

MaxRuns == 2

(***************************************************************************)
(* Optional values and small helpers.                                      *)
(***************************************************************************)
None == <<>>

Some(x) == <<x>>

IsNone(o) == Len(o) = 0

Range(s) == {s[i] : i \in 1..Len(s)}

Min(a, b) == IF a <= b THEN a ELSE b

Msg(t) == [text |-> t, names |-> <<>>]

\* Python truthiness of a str: "" is falsy.
MsgTruthy(m) == m.text # "" \/ Len(m.names) > 0

\* Python truthiness of an Optional[str]: None and "" are falsy.
Truthy(o) == ~IsNone(o) /\ MsgTruthy(o[1])

(***************************************************************************)
(* Floats (test_result_verifier.py compares and sums IEEE doubles).        *)
(***************************************************************************)
Fl(n) == [cls |-> "fin", v |-> n]

NaN == [cls |-> "nan", v |-> 0]

PInf == [cls |-> "pinf", v |-> 0]

NInf == [cls |-> "ninf", v |-> 0]

IsFinite(a) == a.cls = "fin"

FAbs(a) ==
    CASE a.cls = "fin" -> Fl(IF a.v < 0 THEN 0 - a.v ELSE a.v)
      [] a.cls = "nan" -> NaN
      [] OTHER -> PInf

FAdd(a, b) ==
    CASE a.cls = "nan" \/ b.cls = "nan" -> NaN
      [] a.cls = "pinf" /\ b.cls = "ninf" -> NaN
      [] a.cls = "ninf" /\ b.cls = "pinf" -> NaN
      [] a.cls = "pinf" \/ b.cls = "pinf" -> PInf
      [] a.cls = "ninf" \/ b.cls = "ninf" -> NInf
      [] OTHER -> Fl(a.v + b.v)

\* a > n, a >= n, a <= n for a finite number n; every comparison with NaN is false.
FGt(a, n) == a.cls = "pinf" \/ (a.cls = "fin" /\ a.v > n)

FGe(a, n) == a.cls = "pinf" \/ (a.cls = "fin" /\ a.v >= n)

FLe(a, n) == a.cls = "ninf" \/ (a.cls = "fin" /\ a.v <= n)

FLt(a, n) == a.cls = "ninf" \/ (a.cls = "fin" /\ a.v < n)

(***************************************************************************)
(* BTVerifierAgent: the fixed battery of sanity predicates.                *)
(***************************************************************************)
NonTrivialTol == 10

ReturnFloor == 0

TurnoverCeiling == 500

SharpeBound == 500

HitRateMax == 100

_finite_metrics(result) ==
    /\ IsFinite(result.ann_return)
    /\ IsFinite(result.ann_vol)
    /\ IsFinite(result.sharpe)
    /\ IsFinite(result.max_dd)

_non_trivial_performance(result) ==
    LET score == FAdd(FAdd(FAdd(FAbs(result.ann_return), result.ann_vol),
                           FAbs(result.max_dd)), result.turnover)
    IN  FGt(score, NonTrivialTol)

_rerun_guard(limit, result) == FGe(result.ann_return, limit)

_turnover_guard(limit, result) == FLe(result.turnover, limit)

_sharpe_guard(result) ==
    FGe(result.sharpe, 0 - SharpeBound) /\ FLe(result.sharpe, SharpeBound)

_hit_rate_guard(result) ==
    FGe(result.hit_rate, 0) /\ FLe(result.hit_rate, HitRateMax)

\* The names of CHECKS in the dict's insertion order.
CHECKS ==
    << "finite_metrics", "non_trivial_performance", "return_reasonable",
       "turnover_reasonable", "sharpe_in_range", "hit_rate_bounds" >>

CheckFn(name, result) ==
    CASE name = "finite_metrics" -> _finite_metrics(result)
      [] name = "non_trivial_performance" -> _non_trivial_performance(result)
      [] name = "return_reasonable" -> _rerun_guard(ReturnFloor, result)
      [] name = "turnover_reasonable" -> _turnover_guard(TurnoverCeiling, result)
      [] name = "sharpe_in_range" -> _sharpe_guard(result)
      [] OTHER -> _hit_rate_guard(result)

\* Variant: the battery stops at the first predicate that fails.
evaluate_short_circuit(result) ==
    LET fails == SelectSeq(CHECKS, LAMBDA name : ~CheckFn(name, result))
    IN  [ok |-> Len(fails) = 0,
         failures |-> IF Len(fails) = 0 THEN <<>> ELSE << fails[1] >>]

\* BTVerifierAgent.evaluate: (len(fails) == 0, fails).
evaluate(result) ==
    LET fails == SelectSeq(CHECKS, LAMBDA name : ~CheckFn(name, result))
    IN  [ok |-> Len(fails) = 0, failures |-> fails]

(***************************************************************************)
(* RetrieverAgent: the static registry and fetch.                          *)
(***************************************************************************)
TOOLKIT ==
    [ returns |-> [module |-> "backtester.kb.returns", symbol |-> "pct_returns"],
      sharpe |-> [module |-> "backtester.kb.sharpe", symbol |-> "sharpe_ratio"],
      drawdown |-> [module |-> "backtester.kb.drawdown", symbol |-> "max_drawdown"],
      normalize_weights |->
          [module |-> "backtester.kb.strategies", symbol |-> "normalize_weights"],
      compute_turnover |->
          [module |-> "backtester.kb.strategies", symbol |-> "compute_turnover"],
      walk_forward |->
          [module |-> "backtester.kb.walk_forward", symbol |-> "walk_forward_validate"] ]

DEFAULT_TOOLS ==
    << "returns", "sharpe", "drawdown", "normalize_weights", "compute_turnover" >>

RECURSIVE FetchFrom(_, _, _, _)
\* The loop of fetch: needs[i..], the specs collected so far and the names seen.
FetchFrom(needs, i, specs, seen) ==
    IF i > Len(needs) THEN specs
    ELSE LET name == needs[i]
         IN  IF name \in seen THEN FetchFrom(needs, i + 1, specs, seen)
             ELSE IF name \notin DOMAIN TOOLKIT
                  THEN FetchFrom(needs, i + 1, specs, seen)
                  ELSE FetchFrom(needs, i + 1,
                           Append(specs, [name |-> name,
                                          module |-> TOOLKIT[name].module,
                                          symbol |-> TOOLKIT[name].symbol]),
                           seen \cup {name})

\* Variant: a name asked for twice is returned twice.
fetch_no_dedup(needs) ==
    LET known == SelectSeq(needs, LAMBDA name : name \in DOMAIN TOOLKIT)
    IN  [i \in 1..Len(known) |->
            [name |-> known[i], module |-> TOOLKIT[known[i]].module,
             symbol |-> TOOLKIT[known[i]].symbol]]

fetch(needs) == FetchFrom(needs, 1, <<>>, {})

(***************************************************************************)
(* tasks.py: the frozen task library and the shared constraints.           *)
(***************************************************************************)
BoundsStart == 0

BoundsEnd == 7606

DefaultStart == 2556

DefaultSeed == 42

MinWeeklyDays == 182

BASE_UNIVERSE ==
    << "SPY", "QQQ", "IWM", "EFA", "EEM", "TLT", "IEF", "GLD", "USO", "VNQ", "HYG",
       "LQD", "DBC", "XLK", "XLF", "XLE", "XLU", "XLY", "XLI", "XLB", "XLP", "XOM",
       "CVX" >>

ListOf(items) == [kind |-> "list", items |-> items]

_base_spec(name, frequency, universe, params) ==
    [ task |-> name,
      name |-> name,
      universe |-> ListOf(universe),
      frequency |-> frequency,
      tools |-> DEFAULT_TOOLS,
      params |-> params,
      costs_bps |-> Fl(100),
      start_date |-> Some(DefaultStart),
      end_date |-> Some(BoundsEnd),
      seed |-> DefaultSeed ]

TASK_LIBRARY ==
    [ momentum_daily |->
          _base_spec("momentum_daily", "daily", SubSeq(BASE_UNIVERSE, 1, 6),
                     [lookback |-> "63", top_k |-> "3", holding_period |-> "20"]),
      momentum_weekly |->
          _base_spec("momentum_weekly", "weekly", SubSeq(BASE_UNIVERSE, 1, 6),
                     [lookback |-> "26", top_k |-> "2", holding_period |-> "8"]),
      pair_trading |->
          _base_spec("pair_trading", "daily", << "XOM", "CVX" >>,
                     [lookback |-> "60", mode |-> "cointegration"]) ]

allowed_universe == Range(BASE_UNIVERSE)

(***************************************************************************)
(* SpecGuardAgent.  A payload is a function from the keys the caller gave  *)
(* to their values: universe is [kind, items] with kind "list" or "str"    *)
(* (a comma-separated string, items its stripped pieces) or "none" (null), *)
(* a date is an Optional day number (None for null or ""), costs_bps a     *)
(* float, params a function.                                               *)
(***************************************************************************)
REQUIRED_KEYS == << "task", "universe", "frequency", "start_date", "end_date" >>

Get(f, k, default) == IF k \in DOMAIN f THEN f[k] ELSE default

\* The value of one payload key after _coerce_payload.
CoerceValue(key, value) ==
    IF key = "universe" /\ value.kind = "str"
    THEN ListOf(SelectSeq(value.items, LAMBDA v : v # ""))
    ELSE value

_coerce_payload(payload) == [k \in DOMAIN payload |-> CoerceValue(k, payload[k])]

\* merged[k] in (None, "") for a key of REQUIRED_KEYS.
IsBlank(key, value) ==
    CASE key \in {"task", "frequency"} -> value = ""
      [] key \in {"start_date", "end_date"} -> IsNone(value)
      [] OTHER -> value.kind = "none"

\* Variant: on a shared key the template's value is kept.
MergeDict_template_wins(template, overrides) ==
    [k \in DOMAIN template \cup DOMAIN overrides |->
        IF k \in DOMAIN template THEN template[k] ELSE overrides[k]]

\* {**template, **overrides}.
MergeDict(template, overrides) ==
    [k \in DOMAIN template \cup DOMAIN overrides |->
        IF k \in DOMAIN overrides THEN overrides[k] ELSE template[k]]

Rejected(text) == [ok |-> FALSE, err |-> Msg(text), spec |-> None]

\* StrategySpec.model_validate: the field and model validators of schemas.py.
ModelValidateError(merged) ==
    IF merged.frequency \notin {"daily", "weekly"} THEN "frequency"
    ELSE IF FLt(merged.costs_bps, 0) THEN "costs_bps must be non-negative"
    ELSE IF merged.start_date[1] >= merged.end_date[1]
         THEN "start_date must be earlier than end_date"
    ELSE ""

StrategySpecOf(merged) ==
    [ name |-> merged.name,
      task |-> merged.task,
      universe |-> merged.universe.items,
      frequency |-> merged.frequency,
      tools |-> merged.tools,
      params |-> merged.params,
      costs_bps |-> merged.costs_bps,
      start_date |-> merged.start_date[1],
      end_date |-> merged.end_date[1],
      seed |-> merged.seed ]

\* _enforce_constraints: "" when the spec satisfies every constraint.
_enforce_constraints(spec) ==
    IF ~(Range(spec.universe) \subseteq allowed_universe)
    THEN "Universe contains symbols outside frozen dataset."
    ELSE IF spec.start_date < BoundsStart \/ spec.end_date > BoundsEnd
    THEN "Requested window exceeds data freeze"
    ELSE IF spec.frequency = "weekly" /\ spec.end_date - spec.start_date < MinWeeklyDays
    THEN "Weekly strategies require at least 26 weeks of data."
    ELSE IF spec.task = "pair_trading"
            /\ Get(spec.params, "mode", "cointegration") \notin {"cointegration", "distance"}
    THEN "pair_trading mode must be 'cointegration' or 'distance'."
    ELSE ""

validate_and_struct(payload) ==
    LET task_name ==
            IF Get(payload, "task", "") # "" THEN payload.task
            ELSE Get(payload, "name", "")
    IN  IF task_name \notin DOMAIN TASK_LIBRARY
        THEN Rejected("Task not in frozen suite")
        ELSE
        LET template == TASK_LIBRARY[task_name]
            overrides == _coerce_payload(payload)
            merged0 == MergeDict(template, overrides)
            merged1 ==
                IF "params" \in DOMAIN overrides
                THEN [merged0 EXCEPT !.params = MergeDict(template.params, overrides.params)]
                ELSE merged0
            merged == [merged1 EXCEPT !.task = task_name]
            missing == SelectSeq(REQUIRED_KEYS, LAMBDA k : IsBlank(k, merged[k]))
        IN  IF Len(missing) > 0
            THEN [ok |-> FALSE,
                  err |-> [text |-> "Strategy spec missing required fields: ",
                           names |-> missing],
                  spec |-> None]
            ELSE IF ModelValidateError(merged) # ""
            THEN Rejected(ModelValidateError(merged))
            ELSE IF _enforce_constraints(StrategySpecOf(merged)) # ""
            THEN Rejected(_enforce_constraints(StrategySpecOf(merged)))
            ELSE [ok |-> TRUE, err |-> Msg(""), spec |-> Some(StrategySpecOf(merged))]

\* Variant: the dump leaves out the fields that hold the class defaults.
model_dump_exclude_defaults(spec) ==
    LET full ==
            [ name |-> spec.name, task |-> spec.task,
              universe |-> ListOf(spec.universe), frequency |-> spec.frequency,
              tools |-> spec.tools, params |-> spec.params,
              costs_bps |-> spec.costs_bps, start_date |-> Some(spec.start_date),
              end_date |-> Some(spec.end_date), seed |-> spec.seed ]
        kept == {k \in DOMAIN full :
                    ~(\/ k = "tools" /\ spec.tools = <<>>
                      \/ k = "seed" /\ spec.seed = DefaultSeed
                      \/ k = "costs_bps" /\ spec.costs_bps = Fl(100))}
    IN  [k \in kept |-> full[k]]

\* StrategySpec.model_dump: the field map of a spec, as a payload.
model_dump(spec) ==
    [ name |-> spec.name,
      task |-> spec.task,
      universe |-> ListOf(spec.universe),
      frequency |-> spec.frequency,
      tools |-> spec.tools,
      params |-> spec.params,
      costs_bps |-> spec.costs_bps,
      start_date |-> Some(spec.start_date),
      end_date |-> Some(spec.end_date),
      seed |-> spec.seed ]

(***************************************************************************)
(* The generation capability (llm.py) and the candidates it may return.    *)
(* A candidate's source is abstracted by what it does: whether it          *)
(* compiles, and whether run_strategy raises (with which text) or returns  *)
(* returns whose derived metrics are the given ones.                       *)
(***************************************************************************)
Metrics(ret, vol, sharpe, dd, turnover, hit) ==
    [ ann_return |-> ret, ann_vol |-> vol, sharpe |-> sharpe, max_dd |-> dd,
      turnover |-> turnover, hit_rate |-> hit ]

GoodMetrics == Metrics(Fl(12), Fl(15), Fl(80), Fl(0 - 10), Fl(20), Fl(55))

LosingChurnMetrics == Metrics(Fl(0 - 5), Fl(15), Fl(0 - 33), Fl(0 - 20), Fl(600), Fl(45))

FlatMetrics == Metrics(Fl(0), Fl(0), Fl(0), Fl(0), Fl(0), Fl(0))

NanSharpeMetrics == Metrics(Fl(12), Fl(15), NaN, Fl(0 - 10), Fl(20), Fl(55))

\* A candidate that returns hands back a dict holding a "returns" Series with
\* rows in the requested window and its own "turnover" figure (metrics.turnover)
\* unless shape and rows say otherwise.
Candidate(id, compiles, behaviour, text, metrics) ==
    [ id |-> id, compiles |-> compiles, behaviour |-> behaviour, msg |-> Msg(text),
      metrics |-> metrics, shape |-> "dict", rows |-> TRUE ]

Candidates ==
    { Candidate("syntax_error", FALSE, "raise", "", FlatMetrics),
      Candidate("raises_blank", TRUE, "raise", "", FlatMetrics),
      Candidate("raises_keyerror", TRUE, "raise", "'lookback'", FlatMetrics),
      Candidate("good", TRUE, "return", "", GoodMetrics),
      Candidate("losing_churn", TRUE, "return", "", LosingChurnMetrics),
      Candidate("flat", TRUE, "return", "", FlatMetrics),
      Candidate("nan_sharpe", TRUE, "return", "", NanSharpeMetrics) }

NoCandidate == Candidate("", FALSE, "raise", "", FlatMetrics)

\* What call_reasoning_api does: it raises, or returns a response whose code body
\* is empty, or returns a response holding a candidate's source.
LLMResponses ==
    { [kind |-> "call_failed", cand |-> NoCandidate],
      [kind |-> "empty_body", cand |-> NoCandidate] }
    \cup { [kind |-> "code", cand |-> c] : c \in Candidates }

(***************************************************************************)
(* CoderAgent and CodeFixerAgent.                                          *)
(***************************************************************************)
\* Variant: the file name does not depend on the attempt.
PathOf_one_file(name, attempt) == [name |-> name, attempt |-> 1]

\* out_dir / f"strategy_{spec.name}_attempt{attempt}.py"
PathOf(name, attempt) == [name |-> name, attempt |-> attempt]

WriteFile(files, path, content) ==
    [p \in DOMAIN files \cup {path} |-> IF p = path THEN content ELSE files[p]]

\* Variant: an empty body is asked for once more before the synthesizer gives up.
synthesize_strategy_retry(resp) ==
    IF resp.kind = "call_failed"
    THEN [err |-> Some(Msg("Argonne inference call failed")), code |-> NoCandidate,
          calls |-> 1]
    ELSE IF resp.kind = "empty_body"
    THEN [err |-> Some(Msg("Argonne LLM returned empty body.")), code |-> NoCandidate,
          calls |-> 2]
    ELSE [err |-> None, code |-> resp.cand, calls |-> 1]

\* synthesize_strategy: [err, code, calls]; err is None when a body was
\* produced, calls the number of calls of call_reasoning_api made.
synthesize_strategy(resp) ==
    IF resp.kind = "call_failed"
    THEN [err |-> Some(Msg("Argonne inference call failed")), code |-> NoCandidate,
          calls |-> 1]
    ELSE IF resp.kind = "empty_body"
    THEN [err |-> Some(Msg("Argonne LLM returned empty body.")), code |-> NoCandidate,
          calls |-> 1]
    ELSE [err |-> None, code |-> resp.cand, calls |-> 1]

\* write_module: [exc, path, code, files, calls]; exc is the RuntimeError it raises.
write_module(spec, attempt, resp, files) ==
    LET path == PathOf(spec.name, attempt)
        syn == synthesize_strategy(resp)
    IN  IF ~IsNone(syn.err)
        THEN [ exc |-> Some([text |-> "LLM generation failed: ",
                             names |-> << syn.err[1].text >>]),
               path |-> path, code |-> NoCandidate, files |-> files,
               calls |-> syn.calls ]
        ELSE [ exc |-> None, path |-> path, code |-> syn.code,
               files |-> WriteFile(files, path, syn.code), calls |-> syn.calls ]

\* The error texts that mention the parameter-access vocabulary
\* ("lookback", "top_k", "holding_period").
MentionsParams(m) == m.text \in {"'lookback'", "'top_k'", "'holding_period'"}

\* Variant: the hint names only the first failed check.
_build_hint_first_check(spec, error, failed_checks, attempt) ==
    [ attempt |-> attempt,
      task |-> spec.task,
      runtime |-> IF Truthy(error) THEN error ELSE None,
      params_guidance |-> Truthy(error) /\ MentionsParams(error[1]),
      verifier |-> IF Len(failed_checks) = 0 THEN <<>> ELSE << failed_checks[1] >> ]

\* _build_hint: the pieces of the hint, in order.
_build_hint(spec, error, failed_checks, attempt) ==
    LET has_error == Truthy(error)
    IN  [ attempt |-> attempt,
          task |-> spec.task,
          runtime |-> IF has_error THEN error ELSE None,
          params_guidance |-> has_error /\ MentionsParams(error[1]),
          verifier |-> failed_checks ]

\* CodeFixerAgent.repair: [exc, path, hint, code, files, calls].
repair(spec, attempt, error, failed_checks, resp, files) ==
    LET hint == _build_hint(spec, error, failed_checks, attempt)
        w == write_module(spec, attempt, resp, files)
    IN  [ exc |-> w.exc, path |-> w.path, hint |-> hint, code |-> w.code,
          files |-> w.files, calls |-> w.calls ]

(***************************************************************************)
(* CodeVerifierAgent.verify: None, or the text of the error it raises.     *)
(***************************************************************************)
verify(file_path, files) ==
    IF file_path \notin DOMAIN files
    THEN Some(Msg("Strategy module missing"))
    ELSE IF ~files[file_path].compiles
    THEN Some(Msg("py_compile failed"))
    ELSE None

(***************************************************************************)
(* DataLoader.  The local storage is the set of parquet files, each named  *)
(* by its directory and its symbol; the remote sources answer a fetch with *)
(* the columns of the symbols they know.                                   *)
(***************************************************************************)
Symbols == {"SPY", "QQQ"}

\* str.upper on the symbols a request may hold.
upper(s) == IF s = "spy" THEN "SPY" ELSE IF s = "qqq" THEN "QQQ" ELSE s

\* DataLoader.__init__ with the default cache_dir; storage holds the files that
\* exist when it is built, log the ensure_symbols calls made on it.
DataLoader(disk_dir, storage) ==
    [ disk_dir |-> disk_dir, cache_dir |-> "data/cache", storage |-> storage,
      log |-> <<>> ]

_disk_path(dl, symbol) == [dir |-> dl.disk_dir, sym |-> upper(symbol)]

_cache_path(dl, symbol) == [dir |-> dl.cache_dir, sym |-> upper(symbol)]

\* _read_disk: whether a frame is returned (the files here have one column).
_read_disk(dl, symbol) == _disk_path(dl, symbol) \in dl.storage

\* _write_cache: the storage after the write.
_write_cache(dl, storage, symbol) == storage \cup {_cache_path(dl, symbol)}

\* _fetch_panel: the columns of the panel the remote sources return.
_fetch_panel(symbols, remote) == SelectSeq(symbols, LAMBDA s : upper(s) \in remote)

\* ensure_symbols: [storage, symbols, fetched, written, frame]; symbols is the
\* upper-cased request, fetched the symbols passed to _fetch_panel, written the
\* symbols passed to _write_cache, frame the columns of the window returned
\* (none when the panel is empty).
ensure_symbols(dl, symbols, remote) ==
    LET sym_list == [i \in 1..Len(symbols) |-> upper(symbols[i])]
        permanent == SelectSeq(sym_list, LAMBDA s : _read_disk(dl, s))
        missing == SelectSeq(sym_list, LAMBDA s : ~_read_disk(dl, s))
        fetched == IF missing # <<>> THEN _fetch_panel(missing, remote) ELSE <<>>
        Written[i \in 0..Len(fetched)] ==
            IF i = 0 THEN dl.storage ELSE _write_cache(dl, Written[i - 1], fetched[i])
    IN  [ storage |-> Written[Len(fetched)],
          symbols |-> sym_list,
          fetched |-> missing,
          written |-> fetched,
          frame |-> IF permanent = <<>> /\ fetched = <<>> THEN <<>> ELSE sym_list ]

(***************************************************************************)
(* RunnerAgent.  The data loader answers each query with one of            *)
(* LoaderAnswers: it raises, returns an empty frame, returns a frame with  *)
(* no usable row for the universe in the window, or a frame with rows.     *)
(***************************************************************************)
LoaderAnswers == {"raise", "empty", "no_rows", "rows"}

\* The frame ensure_symbols returns for the request of spec: its columns are the
\* universe asked for, its rows lie in the window asked for; fetched_in names
\* the execute call that fetched it.
Frame(answer, spec, now) ==
    [ frame |-> answer, universe |-> spec.universe, start_date |-> spec.start_date,
      end_date |-> spec.end_date, fetched_in |-> now ]

\* Variant: the cached frame is not used, every lookup queries the loader.
_load_prices_refetch(cache, answer, spec, now) ==
    IF answer = "raise"
    THEN [err |-> Some(Msg("data loader failed")), prices |-> None,
          cache |-> cache, calls |-> 1]
    ELSE IF answer = "empty"
    THEN [err |-> Some(Msg("DataLoader returned empty frame")), prices |-> None,
          cache |-> cache, calls |-> 1]
    ELSE [err |-> None, prices |-> Some(Frame(answer, spec, now)),
          cache |-> Some(Frame(answer, spec, now)), calls |-> 1]

\* _load_prices: [err, prices, cache, calls].
_load_prices(cache, answer, spec, now) ==
    IF ~IsNone(cache)
    THEN [err |-> None, prices |-> cache, cache |-> cache, calls |-> 0]
    ELSE IF answer = "raise"
    THEN [err |-> Some(Msg("data loader failed")), prices |-> None,
          cache |-> cache, calls |-> 1]
    ELSE IF answer = "empty"
    THEN [err |-> Some(Msg("DataLoader returned empty frame")), prices |-> None,
          cache |-> cache, calls |-> 1]
    ELSE [err |-> None, prices |-> Some(Frame(answer, spec, now)),
          cache |-> Some(Frame(answer, spec, now)), calls |-> 1]

\* prices.loc[start_ts:end_ts, spec.universe].dropna(how="all"): "key_error" when
\* a symbol of the universe is no column of the frame, else whether a row is left.
Window(prices, spec) ==
    IF ~(Range(spec.universe) \subseteq Range(prices.universe)) THEN "key_error"
    ELSE IF \/ prices.frame = "no_rows"
            \/ spec.universe = <<>>
            \/ spec.end_date < prices.start_date
            \/ spec.start_date > prices.end_date
    THEN "no_rows"
    ELSE "rows"

NoResult == None

\* Variant: a map without "returns" is taken as it is.
_prepare_returns_lenient(payload) ==
    IF payload.shape \in {"series", "dict", "dict_no_returns"}
    THEN [err |-> None, turnover |-> Fl(0)]
    ELSE [err |-> Some(Msg("Strategy output must be a pandas Series or dict.")),
          turnover |-> Fl(0)]

\* _prepare_returns: [err, turnover] for the value run_strategy returned.
_prepare_returns(payload) ==
    CASE payload.shape = "series" -> [err |-> None, turnover |-> Fl(0)]
      [] payload.shape = "dict_no_returns" ->
            [err |-> Some(Msg("Strategy output dict must contain 'returns'.")),
             turnover |-> Fl(0)]
      [] payload.shape \in {"dict", "dict_returns_not_series"} ->
            IF payload.metrics.turnover.cls = "text"
            THEN [err |-> Some(Msg("could not convert string to float")),
                  turnover |-> Fl(0)]
            ELSE IF payload.shape = "dict_returns_not_series"
            THEN [err |-> Some(Msg("Strategy returns must be a pandas Series.")),
                  turnover |-> payload.metrics.turnover]
            ELSE [err |-> None, turnover |-> payload.metrics.turnover]
      [] OTHER ->
            [err |-> Some(Msg("Strategy output must be a pandas Series or dict.")),
             turnover |-> Fl(0)]

\* net_returns > 0 for one return r, where net_returns = returns - cost_drag and
\* cost_drag = turnover * (costs_bps / 10000), the three figures in hundredths
\* and turnover finite; a comparison with NaN is false.
NetPositive(r, turnover, costs_bps) ==
    CASE r.cls = "pinf" -> costs_bps.cls \in {"fin", "ninf"}
      [] r.cls = "fin" ->
            \/ costs_bps.cls = "ninf" /\ turnover.v > 0
            \/ costs_bps.cls = "pinf" /\ turnover.v < 0
            \/ costs_bps.cls = "fin" /\ r.v * 1000000 > turnover.v * costs_bps.v
      [] OTHER -> FALSE

\* Variant: the periods with a positive net return are summed up, not averaged.
hit_rate_sum(returns, turnover, costs_bps) ==
    Fl(Cardinality({i \in 1..Len(returns) :
                       NetPositive(returns[i], turnover, costs_bps)}) * 100)

\* hit_rate = float((net_returns > 0).mean()), in hundredths (rounded down).
hit_rate(returns, turnover, costs_bps) ==
    Fl((Cardinality({i \in 1..Len(returns) :
                        NetPositive(returns[i], turnover, costs_bps)}) * 100)
           \div Len(returns))

\* Variant: the result carries the default seed of the schema.
build_backtest_result_default_seed(metrics, rows, turnover, spec, file_path) ==
    IF ~rows
    THEN [err |-> Some(Msg("Strategy produced no returns for evaluation window.")),
          result |-> NoResult]
    ELSE IF turnover.cls = "nan"
    THEN [err |-> Some(Msg("cannot convert float NaN to integer")), result |-> NoResult]
    ELSE IF turnover.cls \in {"pinf", "ninf"}
    THEN [err |-> Some(Msg("cannot convert float infinity to integer")),
          result |-> NoResult]
    ELSE [err |-> None,
          result |-> Some([ ann_return |-> metrics.ann_return,
                            ann_vol |-> metrics.ann_vol,
                            sharpe |-> metrics.sharpe,
                            max_dd |-> metrics.max_dd,
                            turnover |-> turnover,
                            hit_rate |-> metrics.hit_rate,
                            seed |-> DefaultSeed,
                            period_start |-> spec.start_date,
                            period_end |-> spec.end_date,
                            artifact_paths |-> << file_path >>,
                            issues |-> <<>> ])]

\* build_backtest_result: [err, result]; rows says whether the returns in the
\* evaluation window are non-empty, metrics are the figures derived from them.
build_backtest_result(metrics, rows, turnover, spec, file_path) ==
    IF ~rows
    THEN [err |-> Some(Msg("Strategy produced no returns for evaluation window.")),
          result |-> NoResult]
    ELSE IF turnover.cls = "nan"
    THEN [err |-> Some(Msg("cannot convert float NaN to integer")), result |-> NoResult]
    ELSE IF turnover.cls \in {"pinf", "ninf"}
    THEN [err |-> Some(Msg("cannot convert float infinity to integer")),
          result |-> NoResult]
    ELSE [err |-> None,
          result |-> Some([ ann_return |-> metrics.ann_return,
                            ann_vol |-> metrics.ann_vol,
                            sharpe |-> metrics.sharpe,
                            max_dd |-> metrics.max_dd,
                            turnover |-> turnover,
                            hit_rate |-> metrics.hit_rate,
                            seed |-> spec.seed,
                            period_start |-> spec.start_date,
                            period_end |-> spec.end_date,
                            artifact_paths |-> << file_path >>,
                            issues |-> <<>> ])]

\* The part of run after the price window was found: load and call the module.
RunModule(file_path, spec, files) ==
    LET mod == files[file_path]
        prep == _prepare_returns(mod)
        built == build_backtest_result(mod.metrics, mod.rows, prep.turnover, spec,
                                       file_path)
    IN  IF mod.behaviour = "raise"
        THEN [err |-> Some(mod.msg), result |-> NoResult]
        ELSE IF ~IsNone(prep.err)
        THEN [err |-> prep.err, result |-> NoResult]
        ELSE built

\* Variant: an empty window is looked up again in the cache the run holds.
run_keep_cache(file_path, spec, files, cache, first, second, now) ==
    LET l1 == _load_prices(cache, first, spec, now)
        served == IF l1.calls = 0 THEN l1.prices ELSE None
        Out(err, result, c, calls, empty) ==
            [err |-> err, result |-> result, cache |-> c, calls |-> calls,
             window_empty |-> empty, served |-> served]
    IN  IF ~IsNone(l1.err)
        THEN Out(l1.err, NoResult, l1.cache, l1.calls, FALSE)
        ELSE IF Window(l1.prices[1], spec) = "key_error"
        THEN Out(Some(Msg("not in index")), NoResult, l1.cache, l1.calls, FALSE)
        ELSE IF Window(l1.prices[1], spec) = "no_rows"
        THEN Out(Some(Msg("No price data in requested window, even after fetch.")),
                 NoResult, l1.cache, l1.calls, TRUE)
        ELSE LET m == RunModule(file_path, spec, files)
             IN  Out(m.err, m.result, l1.cache, l1.calls, FALSE)

\* RunnerAgent.run: [err, result, cache, calls, window_empty, served]; first and
\* second are the data loader's answers to the first and the second query, if
\* they are made, calls the number of queries made, window_empty whether the
\* first window was empty, served the cached frame the first lookup returned.
run(file_path, spec, files, cache, first, second, now) ==
    LET l1 == _load_prices(cache, first, spec, now)
        served == IF l1.calls = 0 THEN l1.prices ELSE None
        Out(err, result, c, calls, empty) ==
            [err |-> err, result |-> result, cache |-> c, calls |-> calls,
             window_empty |-> empty, served |-> served]
    IN  IF ~IsNone(l1.err)
        THEN Out(l1.err, NoResult, l1.cache, l1.calls, FALSE)
        ELSE IF Window(l1.prices[1], spec) = "key_error"
        THEN Out(Some(Msg("not in index")), NoResult, l1.cache, l1.calls, FALSE)
        ELSE IF Window(l1.prices[1], spec) = "no_rows"
        THEN LET l2 == _load_prices(None, second, spec, now)
                 calls == l1.calls + l2.calls
             IN  IF ~IsNone(l2.err)
                 THEN Out(l2.err, NoResult, l2.cache, calls, TRUE)
                 ELSE IF Window(l2.prices[1], spec) = "key_error"
                 THEN Out(Some(Msg("not in index")), NoResult, l2.cache, calls, TRUE)
                 ELSE IF Window(l2.prices[1], spec) = "no_rows"
                 THEN Out(Some(Msg("No price data in requested window, even after fetch.")),
                          NoResult, l2.cache, calls, TRUE)
                 ELSE LET m == RunModule(file_path, spec, files)
                      IN  Out(m.err, m.result, l2.cache, calls, TRUE)
        ELSE LET m == RunModule(file_path, spec, files)
             IN  Out(m.err, m.result, l1.cache, l1.calls, FALSE)

(***************************************************************************)
(* ReporterAgent: each write is recorded as the file it leaves on disk.    *)
(***************************************************************************)
write_summary(spec_name, res) ==
    [ path |-> [kind |-> "summary", name |-> spec_name],
      reason |-> None, logs |-> <<>>, result |-> Some(res) ]

write_failure(spec_name, reason, logs) ==
    [ path |-> [kind |-> "failure", name |-> spec_name],
      reason |-> Some(reason), logs |-> logs, result |-> None ]

(***************************************************************************)
(* Orchestrator: the graph state and the node functions.  A node function  *)
(* returns [exc, state, ...]: exc is the exception that escapes it (None   *)
(* when it returns) and state the graph state it returns.                  *)
(***************************************************************************)
LogLine(attempt, event, path, msg, hint) ==
    [attempt |-> attempt, event |-> event, path |-> path, msg |-> msg, hint |-> hint]

\* init_state of execute; keys the dict does not hold yet are None (or False
\* for the three flags, which are only read for their truth value).
InitStateWith(prompt, verdict) ==
    [ prompt |-> prompt,
      spec |-> None,
      tools |-> <<>>,
      tool_names |-> None,
      strategy_path |-> None,
      attempt |-> 1,
      artifacts |-> <<>>,
      run_logs |-> <<>>,
      last_code |-> None,
      last_error |-> None,
      failed_checks |-> <<>>,
      result |-> None,
      verdict |-> verdict,
      code_ok |-> FALSE,
      runtime_ok |-> FALSE,
      verifier_ok |-> FALSE,
      final_reason |-> None,
      workflow |-> None ]

\* Variant: a run that starts out with verdict "pass".
InitState_optimistic(prompt) == InitStateWith(prompt, "pass")

InitState(prompt) == InitStateWith(prompt, "fail")

\* Variant: the counter is left as it is.
_increment_attempt_stuck(attempt) == attempt

_increment_attempt(attempt) == attempt + 1

\* Variant: the retry builds a new spec from the required fields and the new
\* seed, so that the optional tool list falls back to the class default.
_bump_seed_rebuild(spec) == [spec EXCEPT !.seed = @ + 1, !.tools = <<>>]

\* Variant: the seed moves on by two.
_bump_seed_twice(spec) == [spec EXCEPT !.seed = @ + 2]

\* Variant: the seed is left as it is.
_bump_seed_same(spec) == spec

_bump_seed(spec) == [spec EXCEPT !.seed = @ + 1]

\* Variant: a guard that swallows the validation error and carries on.
_node_guard_swallow(state) ==
    LET v == validate_and_struct(state.prompt)
    IN  [exc |-> None,
         state |-> IF v.ok THEN [state EXCEPT !.spec = v.spec] ELSE state]

_node_guard(state) ==
    LET v == validate_and_struct(state.prompt)
    IN  IF ~v.ok
        THEN [exc |-> Some(v.err), state |-> state]
        ELSE [exc |-> None,
              state |-> [state EXCEPT !.spec = v.spec,
                                      !.failed_checks = <<>>,
                                      !.last_error = None]]

_node_retrieve(state) ==
    LET spec == state.spec[1]
        tools == fetch(IF Len(spec.tools) > 0 THEN spec.tools ELSE DEFAULT_TOOLS)
    IN  [exc |-> None,
         state |-> [state EXCEPT !.tools = tools,
                                 !.tool_names = Some([i \in 1..Len(tools) |-> tools[i].name])]]

\* Variant: the branch is chosen by the recorded failure alone.
FirstAttempt_by_failure(state) ==
    ~Truthy(state.last_error) /\ Len(state.failed_checks) = 0

\* Whether _node_code takes the coder branch (first synthesis) or the fixer branch.
FirstAttempt(state) ==
    state.attempt = 1 /\ ~Truthy(state.last_error) /\ Len(state.failed_checks) = 0

\* Variant: the artifact list keeps only the newest path.
AppendArtifact_latest_only(artifacts, path) == << path >>

\* state["artifacts"].append(path)
AppendArtifact(artifacts, path) == Append(artifacts, path)

\* The hint the fixer branch of _node_code builds (None on the coder branch).
HintBuilt(state) ==
    IF FirstAttempt(state) THEN None
    ELSE Some(_build_hint(state.spec[1], state.last_error, state.failed_checks,
                          state.attempt))

\* Variant: a repair visit leaves last_error and failed_checks as they were.
_node_code_keep_failure(state, resp, files) ==
    LET spec == state.spec[1]
        attempt == state.attempt
    IN  IF FirstAttempt(state)
        THEN LET w == write_module(spec, attempt, resp, files)
             IN  IF ~IsNone(w.exc)
                 THEN [exc |-> w.exc, state |-> state, files |-> w.files,
                       calls |-> w.calls]
                 ELSE [exc |-> None,
                       state |->
                           [state EXCEPT
                               !.run_logs = Append(@, LogLine(attempt,
                                   "coder generated strategy at", Some(w.path), None, None)),
                               !.strategy_path = Some(w.path),
                               !.last_code = Some(w.code),
                               !.artifacts = AppendArtifact(@, w.path)],
                       files |-> w.files, calls |-> w.calls]
        ELSE LET r == repair(spec, attempt, state.last_error, state.failed_checks,
                             resp, files)
             IN  IF ~IsNone(r.exc)
                 THEN [exc |-> r.exc, state |-> state, files |-> r.files,
                       calls |-> r.calls]
                 ELSE [exc |-> None,
                       state |->
                           [state EXCEPT
                               !.run_logs = Append(@, LogLine(attempt,
                                   "fixer regenerated strategy with hint", None, None,
                                   Some(r.hint))),
                               !.strategy_path = Some(r.path),
                               !.last_code = Some(r.code),
                               !.artifacts = AppendArtifact(@, r.path)],
                       files |-> r.files, calls |-> r.calls]

_node_code(state, resp, files) ==
    LET spec == state.spec[1]
        attempt == state.attempt
    IN  IF FirstAttempt(state)
        THEN LET w == write_module(spec, attempt, resp, files)
             IN  IF ~IsNone(w.exc)
                 THEN [exc |-> w.exc, state |-> state, files |-> w.files,
                       calls |-> w.calls]
                 ELSE [exc |-> None,
                       state |->
                           [state EXCEPT
                               !.run_logs = Append(@, LogLine(attempt,
                                   "coder generated strategy at", Some(w.path), None, None)),
                               !.strategy_path = Some(w.path),
                               !.last_code = Some(w.code),
                               !.artifacts = AppendArtifact(@, w.path)],
                       files |-> w.files, calls |-> w.calls]
        ELSE LET r == repair(spec, attempt, state.last_error, state.failed_checks,
                             resp, files)
             IN  IF ~IsNone(r.exc)
                 THEN [exc |-> r.exc, state |-> state, files |-> r.files,
                       calls |-> r.calls]
                 ELSE [exc |-> None,
                       state |->
                           [state EXCEPT
                               !.run_logs = Append(@, LogLine(attempt,
                                   "fixer regenerated strategy with hint", None, None,
                                   Some(r.hint))),
                               !.last_error = None,
                               !.failed_checks = <<>>,
                               !.strategy_path = Some(r.path),
                               !.last_code = Some(r.code),
                               !.artifacts = AppendArtifact(@, r.path)],
                       files |-> r.files, calls |-> r.calls]

_node_code_verify(state, files) ==
    LET attempt == state.attempt
        err == verify(state.strategy_path[1], files)
    IN  IF IsNone(err)
        THEN [exc |-> None,
              state |->
                  [state EXCEPT
                      !.code_ok = TRUE,
                      !.run_logs = Append(@, LogLine(attempt, "code verification passed",
                                                     None, None, None))]]
        ELSE [exc |-> None,
              state |->
                  [state EXCEPT
                      !.code_ok = FALSE,
                      !.last_error = err,
                      !.run_logs = Append(@, LogLine(attempt, "code verification failed ->",
                                                     None, err, None)),
                      !.attempt = _increment_attempt(@),
                      !.spec = Some(_bump_seed(@[1]))]]

_node_run(state, files, cache, first, second, now) ==
    LET attempt == state.attempt
        r == run(state.strategy_path[1], state.spec[1], files, cache, first, second, now)
    IN  IF IsNone(r.err)
        THEN [exc |-> None,
              state |->
                  [state EXCEPT
                      !.result = r.result,
                      !.runtime_ok = TRUE,
                      !.run_logs = Append(@, LogLine(attempt, "runner executed successfully",
                                                     None, None, None))],
              cache |-> r.cache]
        ELSE [exc |-> None,
              state |->
                  [state EXCEPT
                      !.runtime_ok = FALSE,
                      !.last_error = r.err,
                      !.run_logs = Append(@, LogLine(attempt, "runtime error ->",
                                                     None, r.err, None)),
                      !.attempt = _increment_attempt(@),
                      !.spec = Some(_bump_seed(@[1]))],
              cache |-> r.cache]

VerifierMessage(failures) == [text |-> "verifier failed checks: ", names |-> failures]

_node_result_verify(state) ==
    LET attempt == state.attempt
    IN  IF IsNone(state.result)
        THEN \* the metric printout dereferences the missing result
             [exc |-> Some(Msg("'NoneType' object has no attribute 'ann_return'")),
              state |-> state]
        ELSE
        LET ev == evaluate(state.result[1])
            result == [state.result[1] EXCEPT !.issues = ev.failures]
        IN  IF ev.ok
            THEN [exc |-> None,
                  state |->
                      [state EXCEPT
                          !.result = Some(result),
                          !.failed_checks = ev.failures,
                          !.verifier_ok = TRUE,
                          !.verdict = "pass",
                          !.run_logs = Append(@, LogLine(attempt, "verifier passed",
                                                         None, None, None))]]
            ELSE [exc |-> None,
                  state |->
                      [state EXCEPT
                          !.result = Some(result),
                          !.failed_checks = ev.failures,
                          !.verifier_ok = FALSE,
                          !.last_error = Some(VerifierMessage(ev.failures)),
                          !.run_logs = Append(@, LogLine(attempt, "",
                              None, Some(VerifierMessage(ev.failures)), None)),
                          !.attempt = _increment_attempt(@),
                          !.spec = Some(_bump_seed(@[1]))]]

\* Variant: the reason falls back to the default without looking at last_error.
ReportReason_final_only(state) ==
    IF Truthy(state.final_reason) THEN state.final_reason[1]
    ELSE Msg("unknown failure")

\* state.get("final_reason") or state.get("last_error") or "unknown failure"
ReportReason(state) ==
    IF Truthy(state.final_reason) THEN state.final_reason[1]
    ELSE IF Truthy(state.last_error) THEN state.last_error[1]
    ELSE Msg("unknown failure")

\* Variant: the summary is written whenever a result exists.
WritesSummary_any_result(state) == ~IsNone(state.result)

\* verdict == "pass" and result
WritesSummary(state) == state.verdict = "pass" /\ ~IsNone(state.result)

\* Variant: the budget is reported, whatever the number of attempts made.
AttemptsConsumed_budget(attempt, max_attempts) == max_attempts

\* Variant: the attempt counter is reported uncapped.
AttemptsConsumed_uncapped(attempt, max_attempts) == attempt

\* attempts=min(state.get("attempt", 1), self.max_attempts)
AttemptsConsumed(attempt, max_attempts) == Min(attempt, max_attempts)

EmptyMetrics == <<>>

_node_report(state, max_attempts) ==
    LET spec == state.spec[1]
        logs == state.run_logs
        success == WritesSummary(state)
        written ==
            IF success THEN write_summary(spec.name, state.result[1])
            ELSE write_failure(spec.name, ReportReason(state), logs)
        metrics ==
            IF success
            THEN [ ann_return |-> state.result[1].ann_return,
                   ann_vol |-> state.result[1].ann_vol,
                   sharpe |-> state.result[1].sharpe,
                   max_dd |-> state.result[1].max_dd,
                   turnover |-> state.result[1].turnover ]
            ELSE EmptyMetrics
        workflow ==
            [ spec |-> spec,
              code_artifacts |-> state.artifacts,
              run_logs |-> logs,
              metrics |-> metrics,
              figures |-> << written.path >>,
              verdict |-> state.verdict,
              tool_refs |-> IF IsNone(state.tool_names) THEN <<>> ELSE state.tool_names[1],
              attempts |-> AttemptsConsumed(state.attempt, max_attempts) ]
    IN  [exc |-> None,
         state |-> [state EXCEPT !.workflow = Some(workflow)],
         written |-> written]

(***************************************************************************)
(* Routing helpers: [label, state], state holding the keys the helper set. *)
(***************************************************************************)
\* Variant: the budget check is off by one.
BudgetExhausted_off_by_one(attempt, max_attempts) == attempt >= max_attempts

\* state.get("attempt", 1) > self.max_attempts
BudgetExhausted(attempt, max_attempts) == attempt > max_attempts

Default(o, text) == IF Truthy(o) THEN o ELSE Some(Msg(text))

_route_code_verify(state, max_attempts) ==
    IF state.code_ok THEN [label |-> "ok", state |-> state]
    ELSE IF BudgetExhausted(state.attempt, max_attempts)
    THEN [label |-> "stop",
          state |-> [state EXCEPT
                        !.final_reason = Default(state.last_error, "code verification failed")]]
    ELSE [label |-> "retry", state |-> state]

_route_run(state, max_attempts) ==
    IF state.runtime_ok THEN [label |-> "ok", state |-> state]
    ELSE IF BudgetExhausted(state.attempt, max_attempts)
    THEN [label |-> "stop",
          state |-> [state EXCEPT
                        !.final_reason = Default(state.last_error, "runtime error")]]
    ELSE [label |-> "retry", state |-> state]

_route_result_verify(state, max_attempts) ==
    IF state.verifier_ok THEN [label |-> "ok", state |-> state]
    ELSE IF BudgetExhausted(state.attempt, max_attempts)
    THEN [label |-> "stop",
          state |-> [state EXCEPT
                        !.final_reason = Default(state.last_error, "verifier failed"),
                        !.verdict = "fail"]]
    ELSE [label |-> "retry", state |-> state]

\* Variant: an accepted candidate goes to result verification without a run.
EdgeOf_skip_run(node, label) ==
    CASE label = "retry" -> "code"
      [] label = "stop" -> "report"
      [] node = "code_verify" -> "result_verify"
      [] node = "run" -> "result_verify"
      [] OTHER -> "report"

\* Variant: the "stop" edges lead to the end of the graph.
EdgeOf_stop_ends(node, label) ==
    CASE label = "retry" -> "code"
      [] label = "stop" -> "END"
      [] node = "code_verify" -> "run"
      [] node = "run" -> "result_verify"
      [] OTHER -> "report"

\* The path maps of _build_graph's conditional edges.
EdgeOf(node, label) ==
    CASE label = "retry" -> "code"
      [] label = "stop" -> "report"
      [] node = "code_verify" -> "run"
      [] node = "run" -> "result_verify"
      [] OTHER -> "report"

(***************************************************************************)
(* The state machine: one run of Orchestrator.execute.                     *)
(***************************************************************************)
VARIABLES
    pc,                 \* the node (or routing helper) the graph executes next
    state,              \* the GraphState threaded through the nodes
    max_attempts,       \* Orchestrator.max_attempts
    branch_writes_kept, \* whether the graph engine keeps a routing helper's writes
    files,              \* the work directory: path -> source written there
    price_cache,        \* RunnerAgent._price_cache
    loads,              \* history: the price lookups of the last Run
    runs,               \* history: the number of execute calls made so far
    peer,               \* the run of a second Orchestrator, while the other one steps
    loader,             \* Orchestrator.loader, its local storage and (history) its calls
    reports,            \* the report files written, in order
    raised,             \* the exception that escaped execute, with its node
    validated,          \* history: the spec Guard produced
    codeLog,            \* history: attempt, seed and repair hint at each Code visit
    history             \* history: the outcome of each stage execution

vars ==
    << pc, state, max_attempts, branch_writes_kept, files, price_cache, loads, runs,
       peer, loader, reports, raised, validated, codeLog, history >>

NoLoads == [calls |-> 0, window_empty |-> FALSE, served |-> None]

\* No second Orchestrator runs.
NoPeer == [id |-> 2, pc |-> "absent"]

\* The prompts given to execute (already parsed into a payload).
Prompts ==
    { [task |-> "momentum_daily"],
      [task |-> "pair_trading", seed |-> 7,
       universe |-> [kind |-> "str", items |-> << "XOM", "", "CVX" >>]],
      [task |-> "momentum_weekly", start_date |-> Some(7500)],
      [task |-> "carry_trade"],
      [name |-> "momentum_daily", start_date |-> Some(BoundsEnd)],
      [task |-> "momentum_daily", end_date |-> None],
      [task |-> "pair_trading", params |-> [mode |-> "granger"]] }

Budgets == (0 - 1) .. MaxBudget

Event(stage, ok, err, names) ==
    [stage |-> stage, n |-> Len(codeLog), ok |-> ok, err |-> err, names |-> names]

Escapes(node, exc) == Some([at |-> node, err |-> exc[1]])

Init ==
    /\ pc = "guard"
    /\ \E prompt \in Prompts : state = InitState(prompt)
    /\ max_attempts \in Budgets
    /\ branch_writes_kept \in BOOLEAN
    /\ files = <<>>
    /\ price_cache = None
    /\ loads = NoLoads
    /\ runs = 1
    /\ peer = NoPeer
    /\ loader = DataLoader("data/etf", {})
    /\ reports = <<>>
    /\ raised = None
    /\ validated = None
    /\ codeLog = <<>>
    /\ history = <<>>

Guard ==
    /\ pc = "guard"
    /\ LET r == _node_guard(state)
       IN  IF IsNone(r.exc)
           THEN /\ pc' = "retrieve"
                /\ state' = r.state
                /\ validated' = r.state.spec
                /\ raised' = raised
           ELSE /\ pc' = "raised"
                /\ raised' = Escapes("guard", r.exc)
                /\ UNCHANGED << state, validated >>
    /\ UNCHANGED << loader, max_attempts, branch_writes_kept, files, price_cache, loads, runs,
                    peer, reports, codeLog, history >>

Retrieve ==
    /\ pc = "retrieve"
    /\ state' = _node_retrieve(state).state
    /\ pc' = "code"
    /\ UNCHANGED << loader, max_attempts, branch_writes_kept, files, price_cache, loads, runs,
                    peer, reports, raised, validated, codeLog, history >>

\* The Code stage, the generation capability answering with one of responses.
CodeFrom(responses) ==
    /\ pc = "code"
    /\ \E resp \in responses :
          LET r == _node_code(state, resp, files)
          IN  /\ codeLog' = Append(codeLog,
                                   [ attempt |-> state.attempt,
                                     seed |-> state.spec[1].seed,
                                     first |-> FirstAttempt(state),
                                     hint |-> HintBuilt(state),
                                     calls |-> r.calls ])
              /\ history' = Append(history,
                                   [ stage |-> "code", n |-> Len(codeLog) + 1,
                                     ok |-> IsNone(r.exc), err |-> r.exc,
                                     names |-> <<>> ])
              /\ state' = r.state
              /\ files' = r.files
              /\ IF IsNone(r.exc)
                 THEN /\ pc' = "code_verify"
                      /\ raised' = raised
                 ELSE /\ pc' = "raised"
                      /\ raised' = Escapes("code", r.exc)
    /\ UNCHANGED << loader, max_attempts, branch_writes_kept, price_cache, loads, runs,
                    peer, reports, validated >>

Code == CodeFrom(LLMResponses)

CodeVerify ==
    /\ pc = "code_verify"
    /\ LET err == verify(state.strategy_path[1], files)
       IN  history' = Append(history, Event("code_verify", IsNone(err), err, <<>>))
    /\ state' = _node_code_verify(state, files).state
    /\ pc' = "route_code_verify"
    /\ UNCHANGED << loader, max_attempts, branch_writes_kept, files, price_cache, loads, runs,
                    peer, reports, raised, validated, codeLog >>

\* A conditional edge: the routing helper's label picks the next node.
Route(node, rt) ==
    /\ pc' = EdgeOf(node, rt.label)
    /\ state' = IF branch_writes_kept THEN rt.state ELSE state
    /\ UNCHANGED << loader, max_attempts, branch_writes_kept, files, price_cache, loads, runs,
                    peer, reports, raised, validated, codeLog, history >>

RouteCodeVerify ==
    /\ pc = "route_code_verify"
    /\ Route("code_verify", _route_code_verify(state, max_attempts))

Run ==
    /\ pc = "run"
    /\ \E first \in LoaderAnswers, second \in LoaderAnswers :
          LET r == run(state.strategy_path[1], state.spec[1], files, price_cache,
                       first, second, runs)
              n == _node_run(state, files, price_cache, first, second, runs)
          IN  /\ history' = Append(history, Event("run", IsNone(r.err), r.err, <<>>))
              /\ state' = n.state
              /\ price_cache' = n.cache
              /\ loads' = [calls |-> r.calls, window_empty |-> r.window_empty,
                           served |-> r.served]
    /\ pc' = "route_run"
    /\ UNCHANGED << loader, runs, peer, max_attempts, branch_writes_kept, files, reports, raised,
                    validated, codeLog >>

RouteRun ==
    /\ pc = "route_run"
    /\ Route("run", _route_run(state, max_attempts))

ResultVerify ==
    /\ pc = "result_verify"
    /\ LET r == _node_result_verify(state)
       IN  IF IsNone(r.exc)
           THEN /\ pc' = "route_result_verify"
                /\ state' = r.state
                /\ raised' = raised
                /\ LET ev == evaluate(state.result[1])
                   IN  history' = Append(history,
                           Event("result_verify", ev.ok,
                                 IF ev.ok THEN None ELSE Some(VerifierMessage(ev.failures)),
                                 ev.failures))
           ELSE /\ pc' = "raised"
                /\ raised' = Escapes("result_verify", r.exc)
                /\ UNCHANGED << state, history >>
    /\ UNCHANGED << loader, max_attempts, branch_writes_kept, files, price_cache, loads, runs,
                    peer, reports, validated, codeLog >>

RouteResultVerify ==
    /\ pc = "route_result_verify"
    /\ Route("result_verify", _route_result_verify(state, max_attempts))

Report ==
    /\ pc = "report"
    /\ LET r == _node_report(state, max_attempts)
       IN  /\ state' = r.state
           /\ reports' = Append(reports, r.written)
    /\ pc' = "END"
    /\ UNCHANGED << loader, max_attempts, branch_writes_kept, files, price_cache, loads, runs,
                    peer, raised, validated, codeLog, history >>

Next ==
    \/ Guard
    \/ Retrieve
    \/ Code
    \/ CodeVerify
    \/ RouteCodeVerify
    \/ Run
    \/ RouteRun
    \/ ResultVerify
    \/ RouteResultVerify
    \/ Report

Spec == Init /\ [][Next]_vars

\* Budgets below one, of one and of more than one attempt.
TerminationBudgets == (0 - 1) .. 2

TerminationInit == Init /\ max_attempts \in TerminationBudgets

\* graph.invoke executes the next node as long as there is one.
FairSpec == TerminationInit /\ [][Next]_vars /\ WF_vars(Next)

\* A budget that lets a run repair twice, so that a repair visit follows an
\* attempt that itself began with a repair visit.
RepairBudgets == {3}

RepairInit ==
    /\ pc = "guard"
    /\ \E prompt \in Prompts : state = InitState(prompt)
    /\ max_attempts \in RepairBudgets
    /\ branch_writes_kept \in BOOLEAN
    /\ files = <<>>
    /\ price_cache = None
    /\ loads = NoLoads
    /\ runs = 1
    /\ peer = NoPeer
    /\ loader = DataLoader("data/etf", {})
    /\ reports = <<>>
    /\ raised = None
    /\ validated = None
    /\ codeLog = <<>>
    /\ history = <<>>

RepairSpec == RepairInit /\ [][Next]_vars

(***************************************************************************)
(* The Executor contract: runs in which the generated candidates differ in *)
(* the value run_strategy hands back (its type, the "returns" entry, the   *)
(* rows in the window, the "turnover" figure).                             *)
(***************************************************************************)
NotANumber == [cls |-> "text", v |-> 0]

WithTurnover(metrics, turnover) == [metrics EXCEPT !.turnover = turnover]

Returning(id, shape, rows, metrics) ==
    [Candidate(id, TRUE, "return", "", metrics) EXCEPT !.shape = shape, !.rows = rows]

ExecCandidates ==
    { Returning("series", "series", TRUE, GoodMetrics),
      Returning("dict", "dict", TRUE, GoodMetrics),
      Returning("dict_no_returns", "dict_no_returns", TRUE, GoodMetrics),
      Returning("dict_returns_not_series", "dict_returns_not_series", TRUE, GoodMetrics),
      Returning("dataframe", "other", TRUE, GoodMetrics),
      Returning("series_no_rows", "series", FALSE, GoodMetrics),
      Returning("dict_no_rows", "dict", FALSE, GoodMetrics),
      Returning("turnover_negative", "dict", TRUE, WithTurnover(GoodMetrics, Fl(0 - 20))),
      Returning("turnover_nan", "dict", TRUE, WithTurnover(GoodMetrics, NaN)),
      Returning("turnover_inf", "dict", TRUE, WithTurnover(GoodMetrics, PInf)),
      Returning("turnover_text", "dict", TRUE, WithTurnover(GoodMetrics, NotANumber)) }

ExecResponses == { [kind |-> "code", cand |-> c] : c \in ExecCandidates }

CodeExec == CodeFrom(ExecResponses)

\* One failing attempt and the attempt that follows it.
RunnerBudgets == {1, 2}

RunnerInit == Init /\ max_attempts \in RunnerBudgets

RunnerNext ==
    \/ Guard
    \/ Retrieve
    \/ CodeExec
    \/ CodeVerify
    \/ RouteCodeVerify
    \/ Run
    \/ RouteRun
    \/ ResultVerify
    \/ RouteResultVerify
    \/ Report

RunnerSpec == RunnerInit /\ [][RunnerNext]_vars

(***************************************************************************)
(* The verifier battery on its own: ResultVerify entered with a result     *)
(* whose six figures range over finite values on both sides of every       *)
(* threshold, NaN and the infinities.                                      *)
(***************************************************************************)
MetricInputs ==
    { Metrics(ret, vol, sharpe, dd, turnover, hit) :
        ret \in {Fl(0 - 5), Fl(0), Fl(12), NaN},
        vol \in {Fl(0), Fl(NonTrivialTol), Fl(15), PInf},
        sharpe \in {Fl(0 - SharpeBound - 1), Fl(SharpeBound), NaN},
        dd \in {Fl(0), Fl(0 - 10), NInf},
        turnover \in {Fl(0), Fl(TurnoverCeiling), Fl(TurnoverCeiling + 1)},
        hit \in {Fl(0 - 1), Fl(HitRateMax), Fl(HitRateMax + 1), NaN} }

GoodResponse ==
    [kind |-> "code", cand |-> Candidate("good", TRUE, "return", "", GoodMetrics)]

ResultWith(result, m) ==
    [result EXCEPT !.ann_return = m.ann_return, !.ann_vol = m.ann_vol,
                   !.sharpe = m.sharpe, !.max_dd = m.max_dd,
                   !.turnover = m.turnover, !.hit_rate = m.hit_rate]

\* The run up to the entry of ResultVerify (first attempt, candidate "good"),
\* holding a result with the figures m.
VerifierInit ==
    /\ pc = "result_verify"
    /\ \E guarded \in {_node_guard(InitState([task |-> "momentum_daily"])).state} :
       \E retrieved \in {_node_retrieve(guarded).state} :
       \E coded \in {_node_code(retrieved, GoodResponse, <<>>)} :
       \E verified \in {_node_code_verify(coded.state, coded.files).state} :
       \E ran \in {_node_run(verified, coded.files, None, "rows", "rows", 1)} :
       \E m \in MetricInputs :
          /\ state = [ran.state EXCEPT !.result = Some(ResultWith(@[1], m))]
          /\ files = coded.files
          /\ price_cache = ran.cache
          /\ loads = [NoLoads EXCEPT !.calls = 1]
          /\ runs = 1
          /\ peer = NoPeer
          /\ loader = DataLoader("data/etf", {})
          /\ validated = guarded.spec
    /\ max_attempts = 1
    /\ branch_writes_kept \in BOOLEAN
    /\ reports = <<>>
    /\ raised = None
    /\ codeLog = << [attempt |-> 1, seed |-> DefaultSeed, first |-> TRUE, hint |-> None,
                  calls |-> 1] >>
    /\ history =
          << [stage |-> "code", n |-> 1, ok |-> TRUE, err |-> None, names |-> <<>>],
             [stage |-> "code_verify", n |-> 1, ok |-> TRUE, err |-> None, names |-> <<>>],
             [stage |-> "run", n |-> 1, ok |-> TRUE, err |-> None, names |-> <<>>] >>

VerifierNext ==
    \/ ResultVerify
    \/ RouteResultVerify
    \/ Report

VerifierSpec == VerifierInit /\ [][VerifierNext]_vars

(***************************************************************************)
(* The spec guard on its own: execute called with payloads that give,      *)
(* leave out, blank or break each field the guard looks at.  An option is  *)
(* an Optional: None when the payload does not hold the key.               *)
(***************************************************************************)
PayloadOptions ==
    [ task : { None, Some("momentum_daily"), Some("momentum_weekly"),
               Some("pair_trading"), Some("carry_trade"), Some("") },
      name : { None, Some("pair_trading") },
      universe : { None,
                   Some([kind |-> "none", items |-> <<>>]),
                   Some([kind |-> "list", items |-> <<>>]),
                   Some([kind |-> "str", items |-> << "" >>]),
                   Some([kind |-> "str", items |-> << "XOM", "", "CVX" >>]),
                   Some([kind |-> "list", items |-> << "SPY", "BTC" >>]) },
      frequency : { None, Some("weekly"), Some("monthly"), Some("") },
      start_date : { None, Some(Some(7500)), Some(Some(BoundsEnd)), Some(Some(0 - 1)) },
      end_date : { None, Some(None), Some(Some(7550)) },
      costs_bps : { None, Some(Fl(0)), Some(Fl(0 - 1)), Some(NaN) },
      params : { None, Some([mode |-> "granger"]), Some([mode |-> "distance"]) },
      tools : { None, Some(<<>>) } ]

PayloadOf(options) ==
    [k \in {key \in DOMAIN options : ~IsNone(options[key])} |-> options[k][1]]

GuardPayloads == { PayloadOf(options) : options \in PayloadOptions }

GuardInit ==
    /\ pc = "guard"
    /\ \E prompt \in GuardPayloads : state = InitState(prompt)
    /\ max_attempts = 1
    /\ branch_writes_kept = TRUE
    /\ files = <<>>
    /\ price_cache = None
    /\ loads = NoLoads
    /\ runs = 1
    /\ peer = NoPeer
    /\ loader = DataLoader("data/etf", {})
    /\ reports = <<>>
    /\ raised = None
    /\ validated = None
    /\ codeLog = <<>>
    /\ history = <<>>

GuardNext == Guard

GuardSpec == GuardInit /\ [][GuardNext]_vars

(***************************************************************************)
(* The retriever on its own: runs whose prompt asks for a list of tools,   *)
(* with names of the registry, repeated names and an unknown name.         *)
(***************************************************************************)
ToolNames == {"returns", "sharpe", "walk_forward", "bollinger"}

NeedLists == UNION { [1..n -> ToolNames] : n \in 0..MaxNeeds }

RetrieverInit ==
    /\ pc = "guard"
    /\ \E needs \in NeedLists :
          state = InitState([task |-> "momentum_daily", tools |-> needs])
    /\ max_attempts = 1
    /\ branch_writes_kept = TRUE
    /\ files = <<>>
    /\ price_cache = None
    /\ loads = NoLoads
    /\ runs = 1
    /\ peer = NoPeer
    /\ loader = DataLoader("data/etf", {})
    /\ reports = <<>>
    /\ raised = None
    /\ validated = None
    /\ codeLog = <<>>
    /\ history = <<>>

RetrieverNext ==
    \/ Guard
    \/ Retrieve

RetrieverSpec == RetrieverInit /\ [][RetrieverNext]_vars

(***************************************************************************)
(* One Orchestrator used for several execute calls, one after the other:   *)
(* execute builds a new init_state and invokes the graph again; the agents *)
(* made in __init__ (the RunnerAgent with its _price_cache among them),    *)
(* the work directory and the report directory stay.                       *)
(***************************************************************************)
SessionPrompts ==
    { [task |-> "momentum_daily"],
      [task |-> "momentum_daily", start_date |-> Some(7500)],
      [task |-> "pair_trading"] }

SessionInit ==
    /\ pc = "guard"
    /\ \E prompt \in SessionPrompts : state = InitState(prompt)
    /\ max_attempts = 1
    /\ branch_writes_kept = TRUE
    /\ files = <<>>
    /\ price_cache = None
    /\ loads = NoLoads
    /\ runs = 1
    /\ peer = NoPeer
    /\ loader = DataLoader("data/etf", {})
    /\ reports = <<>>
    /\ raised = None
    /\ validated = None
    /\ codeLog = <<>>
    /\ history = <<>>

SessionCode == CodeFrom({GoodResponse})

Execute ==
    /\ pc \in {"END", "raised"}
    /\ runs < MaxRuns
    /\ \E prompt \in SessionPrompts : state' = InitState(prompt)
    /\ pc' = "guard"
    /\ runs' = runs + 1
    /\ loads' = NoLoads
    /\ raised' = None
    /\ validated' = None
    /\ codeLog' = <<>>
    /\ history' = <<>>
    /\ UNCHANGED << loader, max_attempts, branch_writes_kept, files, price_cache, peer, reports >>

SessionNext ==
    \/ Execute
    \/ Guard
    \/ Retrieve
    \/ SessionCode
    \/ CodeVerify
    \/ RouteCodeVerify
    \/ Run
    \/ RouteRun
    \/ ResultVerify
    \/ RouteResultVerify
    \/ Report

SessionSpec == SessionInit /\ [][SessionNext]_vars

(***************************************************************************)
(* Two Orchestrators, built with the same work directory, running execute  *)
(* at the same time.  Each has its own graph state and its own agents; the *)
(* files of the work directory and of the report directory are the same    *)
(* for both.  The variables of the run hold the Orchestrator that steps,   *)
(* peer holds the other one; Switch hands the step to the other one, so    *)
(* that the stages of the two runs interleave in every order.              *)
(***************************************************************************)
Self == 3 - peer.id

ConcurrentPrompts == { [task |-> "momentum_daily"], [task |-> "pair_trading"] }

\* The source the generation capability hands to each of the two runs.
ResponseOf(id) ==
    IF id = 1 THEN GoodResponse
    ELSE [kind |-> "code", cand |-> Candidate("losing_churn", TRUE, "return", "",
                                              LosingChurnMetrics)]

ConcurrentInit ==
    /\ pc = "guard"
    /\ \E prompt \in ConcurrentPrompts : state = InitState(prompt)
    /\ \E prompt \in ConcurrentPrompts :
          peer = [ id |-> 2, pc |-> "guard", state |-> InitState(prompt),
                   price_cache |-> None, loads |-> NoLoads, raised |-> None,
                   validated |-> None, codeLog |-> <<>>, history |-> <<>> ]
    /\ max_attempts = 1
    /\ branch_writes_kept = TRUE
    /\ files = <<>>
    /\ price_cache = None
    /\ loads = NoLoads
    /\ runs = 1
    /\ loader = DataLoader("data/etf", {})
    /\ reports = <<>>
    /\ raised = None
    /\ validated = None
    /\ codeLog = <<>>
    /\ history = <<>>

Switch ==
    /\ peer.pc # "absent"
    /\ peer' = [ id |-> Self, pc |-> pc, state |-> state, price_cache |-> price_cache,
                 loads |-> loads, raised |-> raised, validated |-> validated,
                 codeLog |-> codeLog, history |-> history ]
    /\ pc' = peer.pc
    /\ state' = peer.state
    /\ price_cache' = peer.price_cache
    /\ loads' = peer.loads
    /\ raised' = peer.raised
    /\ validated' = peer.validated
    /\ codeLog' = peer.codeLog
    /\ history' = peer.history
    /\ UNCHANGED << loader, max_attempts, branch_writes_kept, files, runs, reports >>

ConcurrentCode == CodeFrom({ResponseOf(Self)})

ConcurrentNext ==
    \/ Switch
    \/ Guard
    \/ Retrieve
    \/ ConcurrentCode
    \/ CodeVerify
    \/ RouteCodeVerify
    \/ Run
    \/ RouteRun
    \/ ResultVerify
    \/ RouteResultVerify
    \/ Report

ConcurrentSpec == ConcurrentInit /\ [][ConcurrentNext]_vars

(***************************************************************************)
(* The data loader on its own: ensure_symbols called a few times on one    *)
(* DataLoader, built on the data directory of the scripts or on the cache  *)
(* directory, with some symbols already on disk.                           *)
(***************************************************************************)
MaxQueries == 3

DiskDirs == {"data/etf", "data/cache"}

Requests == { << "SPY" >>, << "qqq" >>, << "spy", "QQQ" >> }

LoaderInit ==
    /\ pc = "guard"
    /\ state = InitState([task |-> "momentum_daily"])
    /\ max_attempts = 1
    /\ branch_writes_kept = TRUE
    /\ files = <<>>
    /\ price_cache = None
    /\ loads = NoLoads
    /\ runs = 1
    /\ peer = NoPeer
    /\ \E disk_dir \in DiskDirs :
       \E on_disk \in SUBSET Symbols :
          loader = DataLoader(disk_dir, {[dir |-> disk_dir, sym |-> s] : s \in on_disk})
    /\ reports = <<>>
    /\ raised = None
    /\ validated = None
    /\ codeLog = <<>>
    /\ history = <<>>

EnsureSymbols ==
    /\ Len(loader.log) < MaxQueries
    /\ \E symbols \in Requests, remote \in SUBSET Symbols :
          LET r == ensure_symbols(loader, symbols, remote)
          IN  loader' = [loader EXCEPT
                            !.storage = r.storage,
                            !.log = Append(@, [ symbols |-> r.symbols,
                                                fetched |-> r.fetched,
                                                written |-> r.written,
                                                frame |-> r.frame ])]
    /\ UNCHANGED << pc, state, max_attempts, branch_writes_kept, files, price_cache,
                    loads, runs, peer, reports, raised, validated, codeLog, history >>

LoaderNext == EnsureSymbols

LoaderSpec == LoaderInit /\ [][LoaderNext]_vars

(***************************************************************************)
(* The hit rate: runs whose first candidate hands back a return series of  *)
(* a few periods, with the hit rate build_backtest_result derives from it. *)
(***************************************************************************)
MaxPeriods == 2

ReturnValues == { Fl(0 - 1), Fl(0), Fl(1), NaN, PInf }

ReturnSeries == UNION { [1..n -> ReturnValues] : n \in 1..MaxPeriods }

SeriesTurnovers == { Fl(0), Fl(20), Fl(600) }

MetricsPrompts ==
    { [task |-> "momentum_daily"],
      [task |-> "momentum_daily", costs_bps |-> Fl(500000)] }

\* The figures build_backtest_result derives from the returns of a candidate.
DerivedMetrics(returns, turnover, spec) ==
    [GoodMetrics EXCEPT !.turnover = turnover,
                        !.hit_rate = hit_rate(returns, turnover, spec.costs_bps)]

MetricsInit ==
    /\ pc = "run"
    /\ \E prompt \in MetricsPrompts :
       \E guarded \in {_node_guard(InitState(prompt)).state} :
       \E retrieved \in {_node_retrieve(guarded).state} :
       \E returns \in ReturnSeries, turnover \in SeriesTurnovers :
       \E cand \in {Returning("series", "dict", TRUE,
                              DerivedMetrics(returns, turnover, guarded.spec[1]))} :
       \E coded \in {_node_code(retrieved, [kind |-> "code", cand |-> cand], <<>>)} :
       \E verified \in {_node_code_verify(coded.state, coded.files).state} :
          /\ state = verified
          /\ files = coded.files
          /\ validated = guarded.spec
    /\ max_attempts = 2
    /\ branch_writes_kept \in BOOLEAN
    /\ price_cache = None
    /\ loads = NoLoads
    /\ runs = 1
    /\ peer = NoPeer
    /\ loader = DataLoader("data/etf", {})
    /\ reports = <<>>
    /\ raised = None
    /\ codeLog = << [attempt |-> 1, seed |-> DefaultSeed, first |-> TRUE, hint |-> None,
                  calls |-> 1] >>
    /\ history =
          << [stage |-> "code", n |-> 1, ok |-> TRUE, err |-> None, names |-> <<>>],
             [stage |-> "code_verify", n |-> 1, ok |-> TRUE, err |-> None, names |-> <<>>] >>

MetricsCode == CodeFrom({GoodResponse})

MetricsNext ==
    \/ MetricsCode
    \/ CodeVerify
    \/ RouteCodeVerify
    \/ Run
    \/ RouteRun
    \/ ResultVerify
    \/ RouteResultVerify
    \/ Report

MetricsSpec == MetricsInit /\ [][MetricsNext]_vars

(***************************************************************************)
(* Properties.                                                             *)
(***************************************************************************)
Ended == pc \in {"END", "raised"}

Finished == pc = "END"

Outcome == state.workflow[1]

LastEvent == history[Len(history)]

\* The stage executions of the last Code visit that succeeded.
PassedInLastVisit(stage) ==
    \E i \in 1..Len(history) :
        /\ history[i].stage = stage
        /\ history[i].n = Len(codeLog)
        /\ history[i].ok

\* C1: every failure other than a spec-validation failure (a generation failure
\* in the Code stage included) is caught inside the Orchestrator, so the only
\* exception that ever escapes execute is the one raised in Guard.
C1_OnlyGuardFailuresEscape == IsNone(raised) \/ raised[1].at = "guard"

\* C2: a run that passed Guard and has ended executed Report exactly once and
\* created the WorkflowOutcome, whichever later stage failed.
C2_ReportExactlyOnce ==
    (Ended /\ ~IsNone(validated)) => (Len(reports) = 1 /\ ~IsNone(state.workflow))

\* C3: for max_attempts >= 0 a run executes the Code stage at most
\* max_attempts + 1 times.
C3_CodeVisitsBounded == max_attempts >= 0 => Len(codeLog) <= max_attempts + 1

C3_Witness == Finished /\ max_attempts = 0 /\ Len(codeLog) = max_attempts + 1

\* C4: at the n-th Code visit the attempt counter is n and the seed is the
\* validated seed + (n - 1), whichever stage the back-edge was taken from; the
\* counter and the seed a pending Code visit will read obey the same rule.
C4_AttemptAndSeedAtCodeVisit ==
    /\ \A n \in 1..Len(codeLog) :
          /\ codeLog[n].attempt = n
          /\ codeLog[n].seed = validated[1].seed + (n - 1)
    /\ pc = "code" =>
          /\ state.attempt = Len(codeLog) + 1
          /\ state.spec[1].seed = validated[1].seed + Len(codeLog)

C4_Witness ==
    /\ Len(codeLog) = 2
    /\ \E i \in 1..Len(history) :
          history[i].stage = "result_verify" /\ ~history[i].ok /\ history[i].n = 1

\* C5: the terminal verdict is pass exactly when the last generated candidate
\* passed CodeVerify, Run and ResultVerify; earlier attempts do not matter.
C5_VerdictIffLastAttemptPassed ==
    Finished =>
        (Outcome.verdict = "pass" <=>
            /\ PassedInLastVisit("code_verify")
            /\ PassedInLastVisit("run")
            /\ PassedInLastVisit("result_verify"))

C5_Witness ==
    /\ Finished
    /\ Outcome.verdict = "fail"
    /\ \E i \in 1..Len(history) : history[i].stage = "result_verify" /\ history[i].ok = FALSE
    /\ LastEvent.stage = "code_verify"

\* C6: after a failed CodeVerify, Run or ResultVerify the next stage is Code when
\* the attempt counter (as the routing helper reads it) is <= max_attempts and
\* Report when it is > max_attempts, by the same rule at all three stages; after
\* a success the next stage is Run, ResultVerify and Report respectively.
C6_Routing ==
    [][ /\ pc = "route_code_verify" =>
              pc' = IF LastEvent.ok THEN "run"
                    ELSE IF state.attempt <= max_attempts THEN "code" ELSE "report"
        /\ pc = "route_run" =>
              pc' = IF LastEvent.ok THEN "result_verify"
                    ELSE IF state.attempt <= max_attempts THEN "code" ELSE "report"
        /\ pc = "route_result_verify" =>
              pc' = IF LastEvent.ok THEN "report"
                    ELSE IF state.attempt <= max_attempts THEN "code" ELSE "report"
      ]_vars

C6_Witness ==
    /\ pc = "code"
    /\ Len(history) > 0
    /\ LastEvent.stage = "run"
    /\ ~LastEvent.ok

FailureWrite == reports[Len(reports)]

\* C7 as claimed: on budget exhaustion the reason handed to the failure report is
\* the error message the last failing stage recorded, it holds every predicate
\* name that failed in the last attempt, and the accumulated log goes with it.
C7_ReasonIsRecordedMessage ==
    (Finished /\ Outcome.verdict = "fail" /\ max_attempts >= 1) =>
        /\ FailureWrite.reason = LastEvent.err
        /\ Range(LastEvent.names) \subseteq Range(FailureWrite.reason[1].names)
        /\ FailureWrite.logs = state.run_logs

DefaultReasons == { Msg("runtime error"), Msg("unknown failure") }

\* C7 amended: on budget exhaustion the reason handed to the failure report is
\* the error message the last failing stage recorded when that message is not
\* empty, and a fixed default text when it is empty; after a ResultVerify failure
\* it holds every predicate name that failed in the last attempt; the accumulated
\* log (one line per stage execution) is handed over with it.
C7_ReasonIsMessageOrDefault ==
    (Finished /\ Outcome.verdict = "fail") =>
        /\ ~LastEvent.ok
        /\ FailureWrite.path.kind = "failure"
        /\ IF MsgTruthy(LastEvent.err[1])
           THEN FailureWrite.reason = LastEvent.err
           ELSE FailureWrite.reason[1] \in DefaultReasons
        /\ LastEvent.stage = "result_verify" =>
              /\ Len(LastEvent.names) > 0
              /\ Range(LastEvent.names) \subseteq Range(FailureWrite.reason[1].names)
        /\ FailureWrite.logs = state.run_logs
        /\ Len(FailureWrite.logs) = Len(history)

C7_Witness ==
    /\ Finished
    /\ Outcome.verdict = "fail"
    /\ max_attempts = 2
    /\ Len(codeLog) = max_attempts
    /\ \A i \in 1..Len(history) :
          /\ ~history[i].ok => history[i].stage = "result_verify"
          /\ history[i].stage = "result_verify" =>
                history[i].names = << "return_reasonable", "turnover_reasonable" >>
    /\ LastEvent.stage = "result_verify"

\* C8: the attempts field of the outcome never exceeds max_attempts, and equals
\* max_attempts when the run ended because every attempt failed.
C8_AttemptsCapped ==
    Finished =>
        /\ Outcome.attempts <= max_attempts
        /\ Outcome.verdict = "fail" => Outcome.attempts = max_attempts

C8_Witness ==
    /\ Finished
    /\ Outcome.verdict = "fail"
    /\ max_attempts >= 2
    /\ Len(codeLog) = max_attempts
    /\ Outcome.attempts = max_attempts

MetricKeys == {"ann_return", "ann_vol", "sharpe", "max_dd", "turnover"}

\* C9: Report writes the success summary and fills the metrics map (exactly the
\* five keys, from the result) if and only if the verdict is pass; on fail it
\* writes the failure report and the metrics map is empty; one write per report.
C9_ReportWrites ==
    Finished =>
        /\ Len(reports) = 1
        /\ reports[1].path = Outcome.figures[1]
        /\ Outcome.verdict = "pass" =>
              /\ reports[1].path.kind = "summary"
              /\ DOMAIN Outcome.metrics = MetricKeys
              /\ \A k \in MetricKeys : Outcome.metrics[k] = state.result[1][k]
        /\ Outcome.verdict = "fail" =>
              /\ reports[1].path.kind = "failure"
              /\ DOMAIN Outcome.metrics = {}

C9_Witness ==
    /\ Finished
    /\ Outcome.verdict = "fail"
    /\ ~IsNone(state.result)
    /\ reports[1].path.kind = "failure"

\* C10: when SpecValidator rejects the prompt, the error escapes execute from
\* Guard: no later stage runs, nothing is retried, and neither a candidate file
\* nor a report is written.
C10_GuardFailurePropagates ==
    ~validate_and_struct(state.prompt).ok =>
        /\ pc \in {"guard", "raised"}
        /\ pc = "raised" => raised[1].at = "guard"
        /\ history = <<>>
        /\ codeLog = <<>>
        /\ files = <<>>
        /\ reports = <<>>
        /\ state = InitState(state.prompt)

C10_Witness == pc = "raised" /\ raised[1].at = "guard" /\ state.attempt = 1


\* C11: when ResultVerify failed in the n-th Code visit's attempt and a retry
\* follows, the hint built at Code visit n + 1 holds, in its verifier piece, every
\* predicate name that failed in that pass (all of them, in order) and, in its
\* runtime piece, the error message ResultVerify recorded.
C11_HintCarriesFailedChecks ==
    \A i \in 1..Len(history) :
        (/\ history[i].stage = "result_verify"
         /\ ~history[i].ok
         /\ Len(codeLog) > history[i].n) =>
            LET visit == codeLog[history[i].n + 1]
            IN  /\ ~visit.first
                /\ ~IsNone(visit.hint)
                /\ visit.hint[1].verifier = history[i].names
                /\ Len(visit.hint[1].verifier) > 0
                /\ visit.hint[1].runtime = history[i].err
                /\ visit.hint[1].runtime[1] = VerifierMessage(history[i].names)

C11_Witness ==
    /\ Len(codeLog) = 2
    /\ pc = "code_verify"
    /\ ~IsNone(codeLog[2].hint)
    /\ codeLog[2].hint[1].verifier = << "return_reasonable", "turnover_reasonable" >>
    /\ \E i \in 1..Len(history) :
          history[i].stage = "result_verify" /\ ~history[i].ok /\ history[i].n = 1


\* The Code visits that returned (a visit whose generation call fails raises).
CompletedCodeVisits ==
    Cardinality({i \in 1..Len(history) : history[i].stage = "code" /\ history[i].ok})

\* C12: a Code visit that completes appends exactly one path, the one it wrote,
\* to the artifact list; no other step changes the list, whether the stage
\* succeeds or fails; Report hands the whole list, one entry per completed Code
\* visit, to the WorkflowOutcome.
C12_ArtifactsAppendOnly ==
    [][ /\ IF pc = "code" /\ pc' = "code_verify"
           THEN /\ state'.artifacts = Append(state.artifacts, state'.strategy_path[1])
                /\ Len(state'.artifacts) = CompletedCodeVisits'
           ELSE state'.artifacts = state.artifacts
        /\ pc' = "END" =>
              /\ state'.workflow[1].code_artifacts = state.artifacts
              /\ Len(state'.workflow[1].code_artifacts) = CompletedCodeVisits
      ]_vars

C12_Witness ==
    /\ Finished
    /\ Len(Outcome.code_artifacts) = 2
    /\ Outcome.verdict = "fail"
    /\ \E i, j, k \in 1..Len(history) :
          /\ history[i].stage = "code_verify" /\ ~history[i].ok
          /\ history[j].stage = "run" /\ ~history[j].ok
          /\ history[k].stage = "code" /\ history[k].n = 2


PairwiseDistinct(s) == \A i, j \in 1..Len(s) : i # j => s[i] # s[j]

\* C13: within a run a Code visit writes its candidate to a path that is not in
\* the artifact list and holds no file yet, every file written earlier keeps its
\* content, and the artifact paths stay pairwise distinct.
C13_FreshPathPerVisit ==
    [][ (pc = "code" /\ pc' = "code_verify") =>
            /\ state'.strategy_path[1] \notin Range(state.artifacts)
            /\ state'.strategy_path[1] \notin DOMAIN files
            /\ state'.strategy_path[1] \in DOMAIN files'
            /\ \A p \in DOMAIN files : files'[p] = files[p]
            /\ PairwiseDistinct(state'.artifacts)
      ]_vars

C13_Witness ==
    /\ Len(state.artifacts) = 2
    /\ Cardinality(DOMAIN files) = 2
    /\ files[state.artifacts[1]] # files[state.artifacts[2]]


\* The candidate the Run stage executes.
Running == files[state.strategy_path[1]]

ContractShapes == {"series", "dict"}

\* The failures of the price query, which precede the call of the candidate.
DataErrors ==
    { Msg("data loader failed"), Msg("DataLoader returned empty frame"),
      Msg("No price data in requested window, even after fetch.") }

\* C14: the Executor takes a bare return series or a map with a "returns"
\* series; when the candidate hands back a map without "returns", a map whose
\* "returns" is no series, or any other value, the run call raises, and the
\* Orchestrator records a Run failure for that attempt: the error is stored and
\* logged, the attempt counter rises, the result and the verdict of the attempt
\* stay unset, and ResultVerify is not entered.
C14_ShapeContract ==
    [][ (pc = "run" /\ Running.behaviour = "return") =>
            IF Running.shape \in ContractShapes
            THEN (/\ Running.rows
                  /\ Running.shape = "series" \/ IsFinite(Running.metrics.turnover)) =>
                    IF history'[Len(history')].ok
                    THEN /\ state'.runtime_ok
                         /\ state'.result[1].ann_return = Running.metrics.ann_return
                         /\ state'.attempt = state.attempt
                    ELSE history'[Len(history')].err[1] \in DataErrors
            ELSE /\ ~state'.runtime_ok
                 /\ Truthy(state'.last_error)
                 /\ state'.attempt = state.attempt + 1
                 /\ state'.result = state.result
                 /\ state'.verdict = "fail"
                 /\ Len(state'.run_logs) = Len(state.run_logs) + 1
                 /\ state'.run_logs[Len(state'.run_logs)].event = "runtime error ->"
                 /\ state'.run_logs[Len(state'.run_logs)].attempt = state.attempt
                 /\ ~history'[Len(history')].ok
                 /\ history'[Len(history')].stage = "run"
                 /\ _route_run(state', max_attempts).label # "ok"
      ]_vars

C14_Witness ==
    /\ pc = "route_run"
    /\ Running.shape = "dict_no_returns"
    /\ state.last_error = Some(Msg("Strategy output dict must contain 'returns'."))
    /\ ~state.runtime_ok
    /\ IsNone(state.result)


\* C15: every result a successful Run stage stores comes from a non-empty return
\* series and carries a turnover that is finite and non-negative; a candidate
\* that reports a negative or non-finite turnover never gets a successful Run.
C15_TurnoverFiniteNonNegative ==
    (pc = "route_run" /\ state.runtime_ok) =>
        /\ Running.rows
        /\ IsFinite(state.result[1].turnover)
        /\ state.result[1].turnover.v >= 0
        /\ Running.shape = "dict" =>
              /\ IsFinite(Running.metrics.turnover)
              /\ Running.metrics.turnover.v >= 0


\* The predicates of the battery that are false for a result.
FalsePredicates(result) == {name \in Range(CHECKS) : ~CheckFn(name, result)}

\* C16: evaluate applies every predicate of the battery to the result and
\* returns the names of exactly those that are false, each once and in the
\* battery's order, with allPassed true if and only if that list is empty;
\* ResultVerify stores both answers unchanged.
C16_AllFailuresReported ==
    pc = "route_result_verify" =>
        LET result == state.result[1]
            ev == evaluate(result)
        IN  /\ Range(ev.failures) = FalsePredicates(result)
            /\ Len(ev.failures) = Cardinality(FalsePredicates(result))
            /\ \A i, j \in 1..Len(ev.failures) :
                  i < j => \E a, b \in 1..Len(CHECKS) :
                              a < b /\ CHECKS[a] = ev.failures[i] /\ CHECKS[b] = ev.failures[j]
            /\ ev.ok <=> FalsePredicates(result) = {}
            /\ state.failed_checks = ev.failures
            /\ state.verifier_ok = ev.ok
            /\ result.issues = ev.failures

C16_Witness ==
    /\ pc = "route_result_verify"
    /\ ~state.verifier_ok
    /\ state.failed_checks =
          << "finite_metrics", "non_trivial_performance", "sharpe_in_range",
             "hit_rate_bounds" >>


\* The candidate that takes the do-not-trade branch: a return series of zeros
\* and a turnover of 0.0.
ZeroTrade(cand) == cand.behaviour = "return" /\ cand.metrics = FlatMetrics

\* C17: in a pair_trading run whose candidate takes the do-not-trade branch
\* (all-zero returns, turnover 0.0) and was executed, ResultVerify records no
\* error and does not ask for a retry, and the finished run surfaces the
\* zero-trade result (turnover 0.0) in its outcome instead of a failure.
C17_ZeroTradeSurfaced ==
    (/\ ~IsNone(validated)
     /\ validated[1].task = "pair_trading"
     /\ max_attempts >= 1
     /\ pc \in {"route_result_verify", "END"}
     /\ LastEvent.stage = "result_verify"
     /\ ZeroTrade(Running)) =>
        /\ LastEvent.ok
        /\ ~Truthy(state.last_error)
        /\ state.result[1].turnover = Fl(0)
        /\ pc = "END" =>
              /\ Outcome.verdict = "pass"
              /\ Outcome.metrics.turnover = Fl(0)


Given(payload, key) == key \in DOMAIN payload

\* The task name the guard resolves: the payload's task, else its name.
ResolvedTask ==
    IF Given(state.prompt, "task") /\ state.prompt.task # "" THEN state.prompt.task
    ELSE IF Given(state.prompt, "name") THEN state.prompt.name
    ELSE ""

\* The required keys that are null or empty in the payload (the task library
\* gives a non-empty value for every key the payload leaves out).
EmptyRequired ==
    { key \in Range(REQUIRED_KEYS) \ {"task"} :
        /\ Given(state.prompt, key)
        /\ CASE key = "universe" ->
                    \/ state.prompt.universe.kind = "none"
                    \/ \A i \in 1..Len(state.prompt.universe.items) :
                          state.prompt.universe.items[i] = ""
             [] key = "frequency" -> state.prompt.frequency = ""
             [] OTHER -> IsNone(state.prompt[key]) }

\* C18: an input for a catalog task whose merged universe, frequency, start
\* date or end date is null or empty (an empty list or an empty string as the
\* universe included) is rejected by an error that names the missing keys, and
\* no spec the guard returns has an empty universe.
C18_EmptyRequiredRejected ==
    (pc # "guard" /\ ResolvedTask \in DOMAIN TASK_LIBRARY) =>
        /\ EmptyRequired # {} =>
              /\ pc = "raised"
              /\ raised[1].err.text = "Strategy spec missing required fields: "
              /\ Range(raised[1].err.names) = EmptyRequired
        /\ ~IsNone(validated) => Len(validated[1].universe) > 0


\* C19: the guard is idempotent: for every payload it accepts, validating the
\* field map of the spec it returned succeeds again and returns a spec equal to
\* the first in every field.
C19_GuardIdempotent ==
    ~IsNone(validated) =>
        LET again == validate_and_struct(model_dump(validated[1]))
        IN  /\ again.ok
            /\ again.spec = validated
            /\ \A field \in DOMAIN validated[1] :
                  again.spec[1][field] = validated[1][field]

C19_Witness ==
    /\ pc = "retrieve"
    /\ ~IsNone(validated)
    /\ Given(state.prompt, "task")
    /\ state.prompt.task = "momentum_weekly"
    /\ validated[1].name = "pair_trading"
    /\ validated[1].tools = <<>>
    /\ validated[1].universe = << "XOM", "CVX" >>
    /\ Get(validated[1].params, "mode", "") = "distance"
    /\ validated[1].costs_bps = Fl(0)


\* The universe a payload asks for: the non-blank pieces it lists.
AskedUniverse(universe) == SelectSeq(universe.items, LAMBDA v : v # "")

\* C20: every spec the guard returns has a task of the catalog, a universe
\* inside the whitelist, a start date strictly before the end date with both
\* inside the data window, at least 26 weeks when the frequency is weekly, a
\* cost rate >= 0 and, for pair_trading, one of the two allowed modes; the
\* guard repairs nothing: the returned spec carries the universe, frequency,
\* dates and cost rate the payload gave, so a payload breaking a constraint is
\* rejected.
C20_ConstraintsHold ==
    ~IsNone(validated) =>
        LET spec == validated[1]
            given == state.prompt
        IN  /\ spec.task \in DOMAIN TASK_LIBRARY
            /\ Range(spec.universe) \subseteq Range(BASE_UNIVERSE)
            /\ spec.start_date < spec.end_date
            /\ BoundsStart <= spec.start_date /\ spec.end_date <= BoundsEnd
            /\ spec.frequency = "weekly" =>
                  spec.end_date - spec.start_date >= MinWeeklyDays
            /\ FGe(spec.costs_bps, 0)
            /\ spec.task = "pair_trading" =>
                  Get(spec.params, "mode", "cointegration") \in {"cointegration", "distance"}
            /\ Given(given, "universe") => spec.universe = AskedUniverse(given.universe)
            /\ Given(given, "frequency") => spec.frequency = given.frequency
            /\ Given(given, "start_date") => Some(spec.start_date) = given.start_date
            /\ Given(given, "end_date") => Some(spec.end_date) = given.end_date
            /\ Given(given, "costs_bps") => spec.costs_bps = given.costs_bps
            /\ (Given(given, "params") /\ "mode" \in DOMAIN given.params) =>
                  spec.params.mode = given.params.mode


FrozenFields(spec) == DOMAIN spec \ {"seed"}

\* C21: from Guard to Report the spec of the run differs from the spec Guard
\* produced in its seed only, after any number of retries, and the spec handed
\* to the WorkflowOutcome is that spec.
C21_OnlySeedChanges ==
    ~IsNone(validated) =>
        /\ ~IsNone(state.spec)
        /\ DOMAIN state.spec[1] = DOMAIN validated[1]
        /\ \A field \in FrozenFields(validated[1]) :
              state.spec[1][field] = validated[1][field]
        /\ Finished =>
              /\ Outcome.spec = state.spec[1]
              /\ \A field \in FrozenFields(validated[1]) :
                    Outcome.spec[field] = validated[1][field]

C21_Witness ==
    /\ Finished
    /\ Len(codeLog) = 2
    /\ validated[1].universe = << "XOM", "CVX" >>
    /\ validated[1].seed = 7
    /\ Outcome.spec.seed = 8


\* The position of the first occurrence of name in needs.
FirstIndex(needs, name) ==
    CHOOSE i \in 1..Len(needs) :
        needs[i] = name /\ \A j \in 1..(i - 1) : needs[j] # name

\* The names Retrieve asks fetch for.
Requested == IF Len(validated[1].tools) > 0 THEN validated[1].tools ELSE DEFAULT_TOOLS

\* C22: fetch returns one descriptor, taken from the registry, for each distinct
\* requested name the registry holds, ordered by the names' first occurrence in
\* the request and without duplicates; a name the registry does not hold is
\* dropped and no error is raised.
C22_FetchDedupInOrder ==
    pc = "code" =>
        LET got == state.tools
        IN  /\ IsNone(raised)
            /\ {got[i].name : i \in 1..Len(got)} = Range(Requested) \cap DOMAIN TOOLKIT
            /\ \A i, j \in 1..Len(got) : i # j => got[i].name # got[j].name
            /\ \A i, j \in 1..Len(got) :
                  i < j => FirstIndex(Requested, got[i].name)
                              < FirstIndex(Requested, got[j].name)
            /\ \A i \in 1..Len(got) :
                  /\ got[i].module = TOOLKIT[got[i].name].module
                  /\ got[i].symbol = TOOLKIT[got[i].name].symbol
            /\ Len(got) <= Len(Requested)
            /\ state.tool_names = Some([i \in 1..Len(got) |-> got[i].name])

C22_Witness ==
    /\ pc = "code"
    /\ validated[1].tools = << "sharpe", "bollinger", "sharpe" >>
    /\ Len(state.tools) = 1
    /\ state.tools[1].name = "sharpe"


\* The guard accepted the payload of this run.
Accepted == pc = "retrieve" /\ ~IsNone(validated)

\* The payload's value of a key after coercion, and the accepted spec's value
\* of it, both in the payload's form.
Overrides == _coerce_payload(state.prompt)
Merged == model_dump(validated[1])

\* params of the accepted spec is the key-wise union of the template's and the
\* caller's params, the caller winning on a shared key.
ParamsUnion ==
    LET template == TASK_LIBRARY[ResolvedTask].params
    IN  IF Given(state.prompt, "params")
        THEN /\ DOMAIN Merged.params = DOMAIN template \cup DOMAIN Overrides.params
             /\ \A k \in DOMAIN Overrides.params : Merged.params[k] = Overrides.params[k]
             /\ \A k \in DOMAIN template \ DOMAIN Overrides.params :
                   Merged.params[k] = template[k]
        ELSE Merged.params = template

\* C23 as stated: every top-level field the caller gave, task included, is the
\* merged spec's value of that field, and params is the key-wise union.
C23_EveryGivenFieldReplaces ==
    Accepted =>
        /\ \A k \in DOMAIN state.prompt \ {"params"} : Merged[k] = Overrides[k]
        /\ ParamsUnion

\* C23: in the merged spec every top-level field other than task that the caller
\* gave holds the caller's (coerced) value and every field the caller left out
\* holds the template default; task is the resolved task name (the caller's task
\* when it is not empty, else the caller's name); params is the key-wise union
\* of the template's and the caller's params, the caller winning on a shared key.
C23_MergeOverrides ==
    Accepted =>
        /\ \A k \in DOMAIN state.prompt \ {"params", "task"} : Merged[k] = Overrides[k]
        /\ \A k \in DOMAIN Merged \ (DOMAIN state.prompt \cup {"params", "task"}) :
              Merged[k] = TASK_LIBRARY[ResolvedTask][k]
        /\ Merged.task = ResolvedTask
        /\ ParamsUnion

C23_Witness ==
    /\ Accepted
    /\ Given(state.prompt, "params")
    /\ Given(state.prompt, "universe")
    /\ ~Given(state.prompt, "frequency")
    /\ validated[1].task = "pair_trading"
    /\ validated[1].params = [lookback |-> "60", mode |-> "distance"]
    /\ validated[1].universe = << "XOM", "CVX" >>
    /\ validated[1].frequency = "daily"


\* The last stage execution was a Run that failed.
RunFailed == Len(history) > 0 /\ LastEvent.stage = "run" /\ ~LastEvent.ok

C25_CacheOwnedByRun ==
    pc = "route_run" /\ ~IsNone(loads.served) => loads.served[1].fetched_in = runs

\* C26: two runs on two Orchestrators share nothing: whenever a run is about to
\* execute CodeVerify or Run, the candidate file it reads holds the source its
\* own Code stage wrote, also when both runs have the same spec name and the
\* same work directory.
C26_ReadsOwnCandidate ==
    pc \in {"code_verify", "run"} =>
        files[state.strategy_path[1]].id = ResponseOf(Self).cand.id


\* The Code visit that was executed last.
LastVisit == codeLog[Len(codeLog)]

GenerationErrors ==
    { [text |-> "LLM generation failed: ", names |-> << "Argonne inference call failed" >>],
      [text |-> "LLM generation failed: ", names |-> << "Argonne LLM returned empty body." >>] }

\* C27: when the generation capability fails or returns an empty body in a Code
\* visit, the synthesizer raises after that one generation call, no candidate
\* file is written for the attempt and no path is added to the artifact list
\* (it holds the paths of the earlier, successful visits only).
C27_GenerationFailureLeavesNothing ==
    /\ Len(history) > 0 /\ LastEvent.stage = "code" /\ ~LastEvent.ok =>
          /\ pc = "raised"
          /\ LastEvent.err[1] \in GenerationErrors
          /\ LastVisit.calls = 1
          /\ PathOf(state.spec[1].name, LastVisit.attempt) \notin DOMAIN files
          /\ Len(state.artifacts) = Len(codeLog) - 1
          /\ \A i \in 1..Len(state.artifacts) :
                state.artifacts[i] # PathOf(state.spec[1].name, LastVisit.attempt)
    /\ \A i \in 1..Len(codeLog) : codeLog[i].calls = 1

C27_Witness ==
    /\ pc = "raised"
    /\ Len(codeLog) = 2
    /\ LastEvent.stage = "code"
    /\ LastEvent.err[1].names = << "Argonne LLM returned empty body." >>
    /\ Len(state.artifacts) = 1
    /\ DOMAIN files = {PathOf(state.spec[1].name, 1)}


\* The failed stage execution that led to Code visit i (i > 1).
FailureBefore(i) ==
    history[CHOOSE j \in 1..Len(history) : history[j].n = i - 1 /\ ~history[j].ok]

\* C28: the first Code visit of a run does direct synthesis, without a hint;
\* every later Code visit does repair synthesis with a hint built, for the
\* attempt it opens, from the failure that ended the attempt before (its error
\* message, when it has one, and the checks it failed).  So direct synthesis
\* happens once at most and never after the first visit.
C28_DirectThenRepair ==
    \A i \in 1..Len(codeLog) :
        /\ codeLog[i].first <=> i = 1
        /\ IsNone(codeLog[i].hint) <=> i = 1
        /\ i > 1 =>
              /\ \E j \in 1..Len(history) : history[j].n = i - 1 /\ ~history[j].ok
              /\ FailureBefore(i).stage \in {"code_verify", "run", "result_verify"}
              /\ codeLog[i].hint[1].attempt = i
              /\ codeLog[i].hint[1].runtime =
                    (IF Truthy(FailureBefore(i).err) THEN FailureBefore(i).err ELSE None)
              /\ codeLog[i].hint[1].verifier = FailureBefore(i).names

C28_Witness ==
    /\ Len(codeLog) = 2
    /\ FailureBefore(2).stage = "run"
    /\ ~Truthy(FailureBefore(2).err)
    /\ codeLog[1].first
    /\ ~codeLog[2].first
    /\ IsNone(codeLog[2].hint[1].runtime)


\* C29: once the Executor has returned a result record, no later stage changes
\* any of its fields: a step of ResultVerify, of its routing helper or of Report
\* leaves the record, its list of violated checks included, as it found it.
C29_ResultImmutable ==
    [][(pc \in {"result_verify", "route_result_verify", "report"}) =>
           state'.result = state.result]_vars


\* Report has been executed.
Reported == pc = "END" /\ Len(reports) > 0

\* C30: a run that has passed Guard and in which every stage call returns (no
\* exception leaves a node) reaches Report, whatever the integer max_attempts
\* (zero and negative values included) and whatever the stages' outcomes; the
\* number of stage executions on the way is bounded by four per attempt of the
\* budget (one attempt when the budget is below one).
C30_ReachesReport ==
    /\ [](Len(history) <= 4 * (IF max_attempts < 1 THEN 1 ELSE max_attempts))
    /\ (~IsNone(validated)) ~> (Reported \/ ~IsNone(raised))

C30_Witness ==
    /\ Reported
    /\ ~IsNone(validated)
    /\ max_attempts < 0
    /\ Len(history) = 4
    /\ ~LastEvent.ok


\* The stage execution before the i-th one was a success of stage, in the same
\* attempt.
PrecededBySuccess(i, stage) ==
    /\ i > 1
    /\ history[i - 1].stage = stage
    /\ history[i - 1].ok
    /\ history[i - 1].n = history[i].n

\* C31: Run executes a candidate only right after CodeVerify accepted the path
\* written in the same attempt, and ResultVerify is entered only right after a
\* Run of the same attempt succeeded, with a result made from the current
\* candidate and holding the current seed; ResultVerify is never entered
\* without a result.
C31_StagesInOrder ==
    /\ \A i \in 1..Len(history) :
          /\ history[i].stage = "run" => PrecededBySuccess(i, "code_verify")
          /\ history[i].stage = "result_verify" => PrecededBySuccess(i, "run")
          /\ history[i].stage = "code_verify" => PrecededBySuccess(i, "code")
    /\ pc = "run" =>
          /\ Len(history) > 0
          /\ LastEvent.stage = "code_verify" /\ LastEvent.ok
          /\ LastEvent.n = Len(codeLog)
          /\ state.strategy_path = Some(PathOf(state.spec[1].name, LastVisit.attempt))
          /\ state.attempt = LastVisit.attempt
    /\ pc = "result_verify" =>
          /\ ~IsNone(state.result)
          /\ Len(history) > 0
          /\ LastEvent.stage = "run" /\ LastEvent.ok
          /\ LastEvent.n = Len(codeLog)
          /\ state.attempt = LastVisit.attempt
          /\ state.result[1].artifact_paths = << state.strategy_path[1] >>
          /\ state.strategy_path = Some(PathOf(state.spec[1].name, LastVisit.attempt))
          /\ state.result[1].seed = state.spec[1].seed
          /\ state.result[1].seed = LastVisit.seed

C31_Witness ==
    /\ pc = "result_verify"
    /\ Len(codeLog) = 2
    /\ state.result[1].seed = validated[1].seed + 1
    /\ \E i \in 1..Len(history) :
          history[i].stage = "result_verify" /\ ~history[i].ok /\ history[i].n = 1


\* The last line of a log.
LastLine(logs) == logs[Len(logs)]

\* C32: run_logs only grows: a step of Code, CodeVerify, Run or ResultVerify
\* appends exactly one line, labelled with the attempt number of the candidate
\* the stage works on, and no other step changes the log; a Code visit that
\* follows a failed attempt k finds that attempt's failure line last in the log
\* and appends a repair line labelled k + 1; Report hands the whole log to the
\* WorkflowOutcome.
C32_OneLinePerStage ==
    [][ /\ IF pc \in {"code", "code_verify", "run", "result_verify"}
           THEN /\ Len(state'.run_logs) = Len(state.run_logs) + 1
                /\ SubSeq(state'.run_logs, 1, Len(state.run_logs)) = state.run_logs
                /\ LastLine(state'.run_logs).attempt = state.attempt
           ELSE state'.run_logs = state.run_logs
        /\ (pc = "code" /\ Len(codeLog) > 0) =>
              /\ LastLine(state.run_logs).attempt = state.attempt - 1
              /\ ~IsNone(LastLine(state.run_logs).msg)
              /\ ~IsNone(LastLine(state'.run_logs).hint)
        /\ pc' = "END" => state'.workflow[1].run_logs = state.run_logs
      ]_vars


\* C33: with a budget of at least one attempt, the attempts field of the outcome
\* is the number of Code visits of the run and the length of code_artifacts, and
\* lies between 1 and max_attempts.
C33_AttemptsCountCodeVisits ==
    (Finished /\ max_attempts >= 1) =>
        /\ Outcome.attempts = Len(codeLog)
        /\ Outcome.attempts = Len(Outcome.code_artifacts)
        /\ Outcome.attempts >= 1
        /\ Outcome.attempts <= max_attempts

C33_Witness ==
    /\ Finished
    /\ max_attempts = 2
    /\ Outcome.verdict = "pass"
    /\ Outcome.attempts = 1
    /\ Len(Outcome.code_artifacts) = 1


\* The number of stage executions of the run that failed.
StageFailures == Cardinality({i \in 1..Len(history) : ~history[i].ok})

\* C34: the seed of the spec in the outcome is the validated seed plus the
\* number of stage failures of the run: on a pass it is the seed the last Code
\* visit was given, on a failure it is one more than that and so greater than
\* the seed of any Code visit of the run.
C34_OutcomeSeed ==
    Finished =>
        /\ Outcome.spec.seed = validated[1].seed + StageFailures
        /\ Outcome.verdict = "pass" => Outcome.spec.seed = LastVisit.seed
        /\ Outcome.verdict = "fail" =>
              /\ Outcome.spec.seed = LastVisit.seed + 1
              /\ \A i \in 1..Len(codeLog) : codeLog[i].seed < Outcome.spec.seed

C34_Witness ==
    /\ Finished
    /\ Outcome.verdict = "fail"
    /\ Len(codeLog) = 2
    /\ StageFailures = 2
    /\ Outcome.spec.seed = validated[1].seed + 2


\* The last path of the outcome's code_artifacts.
LastArtifact == Outcome.code_artifacts[Len(Outcome.code_artifacts)]

\* C35: on a pass, the metrics of the outcome are the figures of the result that
\* Run produced from the last path of code_artifacts (the candidate written at
\* the last Code visit), and that result holds the seed of the outcome's spec; a
\* result an earlier attempt left behind is not reported.
C35_PassReportsLastCandidate ==
    (Finished /\ Outcome.verdict = "pass") =>
        /\ ~IsNone(state.result)
        /\ state.result[1].artifact_paths = << LastArtifact >>
        /\ LastArtifact = PathOf(Outcome.spec.name, LastVisit.attempt)
        /\ \A k \in MetricKeys \ {"turnover"} :
              Outcome.metrics[k] = files[LastArtifact].metrics[k]
        /\ Outcome.metrics.turnover = _prepare_returns(files[LastArtifact]).turnover
        /\ state.result[1].seed = Outcome.spec.seed
        /\ reports[Len(reports)].result = state.result

C35_Witness ==
    /\ Finished
    /\ Outcome.verdict = "pass"
    /\ Len(Outcome.code_artifacts) = 2
    /\ files[Outcome.code_artifacts[1]].id = "losing_churn"
    /\ files[LastArtifact].id = "good"
    /\ \E i \in 1..Len(history) :
          history[i].stage = "result_verify" /\ ~history[i].ok /\ history[i].n = 1
    /\ Outcome.metrics.ann_return = GoodMetrics.ann_return


\* C36: the hint of a Code visit is built from the failure of the attempt just
\* before it and from nothing older: it lists check names exactly when that
\* attempt failed in ResultVerify, the names and the message it holds are those
\* of that failure, and a completed repair visit leaves last_error and
\* failed_checks empty, so that what a later failure finds there is its own.
C36_HintFromPrecedingAttemptOnly ==
    /\ \A i \in 2..Len(codeLog) :
          LET hint == codeLog[i].hint[1]
              before == FailureBefore(i)
          IN  /\ Len(hint.verifier) > 0 <=> before.stage = "result_verify"
              /\ \A k \in 1..Len(hint.verifier) :
                    \E m \in 1..Len(before.names) : before.names[m] = hint.verifier[k]
              /\ ~IsNone(hint.runtime) => hint.runtime = before.err
    /\ (Len(codeLog) >= 2 /\ pc \in {"code_verify", "run", "result_verify"}) =>
          /\ IsNone(state.last_error)
          /\ state.failed_checks = <<>>
    /\ (Len(codeLog) >= 2 /\ pc = "code" /\ Len(codeLog) < state.attempt) =>
          /\ state.last_error = LastEvent.err
          /\ state.failed_checks = LastEvent.names

C36_Witness ==
    /\ Len(codeLog) = 3
    /\ pc = "code_verify"
    /\ FailureBefore(2).stage = "result_verify"
    /\ FailureBefore(3).stage \in {"code_verify", "run"}
    /\ Len(codeLog[2].hint[1].verifier) > 0
    /\ codeLog[3].hint[1].verifier = <<>>
    /\ codeLog[3].hint[1].runtime # codeLog[2].hint[1].runtime


\* A Run event of a run() call that got a non-empty price window: it succeeded,
\* or it failed after the price query, in the candidate or on its output.
WindowFound(e) ==
    /\ e.stage = "run"
    /\ e.ok \/ e.err[1] \notin (DataErrors \cup {Msg("not in index")})

\* C37: the price cache of the RunnerAgent is absent or holds a non-empty table;
\* one run() call queries the data loader twice at most; and after a run() call
\* that got a non-empty window, every later run() call of the same execute call
\* makes no query and finds the table it needs in the cache.
C37_CacheAndLoaderQueries ==
    /\ ~IsNone(price_cache) => price_cache[1].frame \in {"no_rows", "rows"}
    /\ loads.calls \in 0..2
    /\ \A i \in 1..Len(history) :
          WindowFound(history[i]) =>
              /\ ~IsNone(price_cache)
              /\ price_cache[1].frame = "rows"
              /\ Window(price_cache[1], state.spec[1]) = "rows"
              /\ (pc = "route_run" /\ i < Len(history)) =>
                    /\ loads.calls = 0
                    /\ loads.served = price_cache
                    /\ ~loads.window_empty

C37_Witness ==
    /\ pc = "route_run"
    /\ Len(codeLog) = 2
    /\ \E i \in 1..(Len(history) - 1) : WindowFound(history[i]) /\ ~history[i].ok
    /\ loads.calls = 0
    /\ LastEvent.ok

\* C38: once an ensure_symbols call has fetched a symbol from the remote sources
\* and written it to the cache, a later call that asks for the symbol finds it in
\* local storage and does not pass it to the remote fetch again.
C38_FetchedSymbolServedLocally ==
    \A j \in 1..Len(loader.log) : \A k \in (j + 1)..Len(loader.log) :
        \A s \in Range(loader.log[j].written) :
            s \in Range(loader.log[k].symbols) => s \notin Range(loader.log[k].fetched)


\* Whether a list of check names holds hit_rate_bounds.
NamesHitRate(names) == \E i \in 1..Len(names) : names[i] = "hit_rate_bounds"

\* C39: the hit rate of a result that build_backtest_result builds from a
\* non-empty return series lies between 0 and 1, so hit_rate_bounds is never
\* among the checks a ResultVerify pass of such a result fails, nor among the
\* names of a repair hint.
C39_HitRateInBounds ==
    /\ ~IsNone(state.result) =>
          /\ state.result[1].hit_rate.cls = "fin"
          /\ state.result[1].hit_rate.v \in 0..HitRateMax
          /\ _hit_rate_guard(state.result[1])
    /\ ~NamesHitRate(state.failed_checks)
    /\ \A i \in 1..Len(history) : ~NamesHitRate(history[i].names)
    /\ \A i \in 1..Len(codeLog) :
          ~IsNone(codeLog[i].hint) => ~NamesHitRate(codeLog[i].hint[1].verifier)

C39_Witness ==
    /\ pc = "code_verify"
    /\ Len(codeLog) = 2
    /\ codeLog[2].hint[1].verifier = << "turnover_reasonable" >>
    /\ files[PathOf(state.spec[1].name, 1)].metrics.hit_rate = Fl(50)
    /\ state.result[1].hit_rate = Fl(50)
    /\ state.spec[1].costs_bps = Fl(100)

=============================================================================
